---------------------------- MODULE Spec2Model ----------------------------
(***************************************************************************)
(* A model of the GitHub repository tool of readme-ai-generator            *)
(* (fetchRepoInfoTool, fetchFileContent, getFilePriority).                 *)
(*                                                                         *)
(* Representation.  A JavaScript string that the code inspects character   *)
(* by character (a file name, a path, a URL path) is a sequence of         *)
(* one-character strings.  A fetched text, which the code only measures,   *)
(* cuts and appends to, is held run-length encoded (see Text below).       *)
(* An optional value (undefined / null in the code) is None or Some(v).    *)
(***************************************************************************)
EXTENDS Integers, Sequences, FiniteSets, TLC

None == <<>>
Some(v) == <<v>>
IsSome(o) == Len(o) = 1
Val(o) == o[1]

(***************************************************************************)
(* Characters and strings                                                  *)
(***************************************************************************)
\* The ASCII capital letters and their small letters.
UpperChars == {"A", "B", "C", "D", "E", "F", "G", "H", "I", "J", "K", "L", "M", "N", "O", "P", "Q", "R", "S", "T", "U", "V", "W", "X", "Y", "Z"}
LowerChars ==
    [A |-> "a", B |-> "b", C |-> "c", D |-> "d", E |-> "e", F |-> "f", G |-> "g",
     H |-> "h", I |-> "i", J |-> "j", K |-> "k", L |-> "l", M |-> "m", N |-> "n",
     O |-> "o", P |-> "p", Q |-> "q", R |-> "r", S |-> "s", T |-> "t", U |-> "u",
     V |-> "v", W |-> "w", X |-> "x", Y |-> "y", Z |-> "z"]

\* String.prototype.toLowerCase on one ASCII character.
toLowerChar(c) == IF c \in UpperChars THEN LowerChars[c] ELSE c

toLowerCase(s) == [i \in 1..Len(s) |-> toLowerChar(s[i])]

\* String.prototype.endsWith / includes
endsWith(s, w) ==
    /\ Len(w) <= Len(s)
    /\ SubSeq(s, Len(s) - Len(w) + 1, Len(s)) = w

includes(s, w) ==
    \E i \in 0..(Len(s) - Len(w)) : SubSeq(s, i + 1, i + Len(w)) = w

(***************************************************************************)
(* Regular expressions.  Every pattern of the tool is ^(w1|w2|...) with or *)
(* without a closing $, so a pattern is the finite set of words it spells, *)
(* whether it is closed by $, and its flags.  RegExp.prototype.test reads  *)
(* and writes the lastIndex of the RegExp object when the flags hold g or  *)
(* y; lastIndex maps each RegExp object to that field.                     *)
(***************************************************************************)
ReadmeSuffixes == {<<"m", "d">>, <<"r", "s", "t">>, <<"t", "x", "t">>, <<"m", "a", "r", "k", "d", "o", "w", "n">>}
LicenseSuffixes == {<<"m", "d">>, <<"t", "x", "t">>, <<"r", "s", "t">>}

\* Mutant: the pattern written without the i flag.
README_FILES_REGEX_caseSensitive ==
    [name |-> "README_FILES_REGEX", flags |-> {}, closed |-> TRUE,
     words |-> {<<"R", "E", "A", "D", "M", "E">>} \cup {<<"R", "E", "A", "D", "M", "E", ".">> \o e : e \in ReadmeSuffixes}]

\* Mutant: the pattern written with the g flag.
README_FILES_REGEX_global ==
    [name |-> "README_FILES_REGEX", flags |-> {"g", "i"}, closed |-> TRUE,
     words |-> {<<"R", "E", "A", "D", "M", "E">>} \cup {<<"R", "E", "A", "D", "M", "E", ".">> \o e : e \in ReadmeSuffixes}]

README_FILES_REGEX ==
    [name |-> "README_FILES_REGEX", flags |-> {"i"}, closed |-> TRUE,
     words |-> {<<"R", "E", "A", "D", "M", "E">>} \cup {<<"R", "E", "A", "D", "M", "E", ".">> \o e : e \in ReadmeSuffixes}]

LICENSE_FILES_REGEX ==
    [name |-> "LICENSE_FILES_REGEX", flags |-> {"i"}, closed |-> TRUE,
     words |-> {b \o x : b \in {<<"L", "I", "C", "E", "N", "S", "E">>, <<"C", "O", "P", "Y", "I", "N", "G">>},
                         x \in {<<>>} \cup {<<".">> \o e : e \in LicenseSuffixes}}]

MANIFEST_FILES_REGEX ==
    [name |-> "MANIFEST_FILES_REGEX", flags |-> {"i"}, closed |-> TRUE,
     words |-> {<<"p", "a", "c", "k", "a", "g", "e", ".", "j", "s", "o", "n">>, <<"p", "n", "p", "m", "-", "l", "o", "c", "k", ".", "y", "a", "m", "l">>, <<"y", "a", "r", "n", ".", "l", "o", "c", "k">>, <<"p", "a", "c", "k", "a", "g", "e", "-", "l", "o", "c", "k", ".", "j", "s", "o", "n">>,
                <<"p", "y", "p", "r", "o", "j", "e", "c", "t", ".", "t", "o", "m", "l">>, <<"p", "o", "e", "t", "r", "y", ".", "l", "o", "c", "k">>, <<"r", "e", "q", "u", "i", "r", "e", "m", "e", "n", "t", "s", ".", "t", "x", "t">>, <<"c", "o", "m", "p", "o", "s", "e", "r", ".", "j", "s", "o", "n">>,
                <<"c", "o", "m", "p", "o", "s", "e", "r", ".", "l", "o", "c", "k">>, <<"G", "e", "m", "f", "i", "l", "e">>, <<"G", "e", "m", "f", "i", "l", "e", ".", "l", "o", "c", "k">>, <<"p", "o", "m", ".", "x", "m", "l">>, <<"b", "u", "i", "l", "d", ".", "g", "r", "a", "d", "l", "e">>,
                <<"C", "a", "r", "g", "o", ".", "t", "o", "m", "l">>, <<"C", "a", "r", "g", "o", ".", "l", "o", "c", "k">>, <<"g", "o", ".", "m", "o", "d">>, <<"g", "o", ".", "s", "u", "m">>, <<"M", "a", "k", "e", "f", "i", "l", "e">>, <<"D", "o", "c", "k", "e", "r", "f", "i", "l", "e">>,
                <<"d", "o", "c", "k", "e", "r", "-", "c", "o", "m", "p", "o", "s", "e", ".", "y", "a", "m", "l">>, <<"d", "o", "c", "k", "e", "r", "-", "c", "o", "m", "p", "o", "s", "e", ".", "y", "m", "l">>}]

SOURCE_FILE_EXTENSIONS ==
    {<<".", "j", "s">>, <<".", "t", "s">>, <<".", "t", "s", "x">>, <<".", "j", "s", "x">>, <<".", "p", "y">>, <<".", "j", "a", "v", "a">>, <<".", "g", "o">>, <<".", "r", "s">>, <<".", "r", "b">>, <<".", "p", "h", "p">>,
     <<".", "c", "s">>, <<".", "c">>, <<".", "c", "p", "p">>, <<".", "s", "w", "i", "f", "t">>, <<".", "k", "t">>, <<".", "m">>, <<".", "s", "c", "a", "l", "a">>, <<".", "p", "l">>, <<".", "s", "h">>, <<".", "l", "u", "a">>,
     <<".", "s", "q", "l">>, <<".", "h", "t", "m", "l">>, <<".", "c", "s", "s">>, <<".", "v", "u", "e">>}

COMMON_SOURCE_DIRS_REGEX ==
    [name |-> "COMMON_SOURCE_DIRS_REGEX", flags |-> {"i"}, closed |-> FALSE,
     words |-> {d \o <<"/">> : d \in {<<"s", "r", "c">>, <<"l", "i", "b">>, <<"a", "p", "p">>, <<"s", "o", "u", "r", "c", "e">>, <<"s", "o", "u", "r", "c", "e", "s">>, <<"i", "n", "c", "l", "u", "d", "e">>,
                                   <<"p", "k", "g">>, <<"c", "m", "d">>, <<"i", "n", "t", "e", "r", "n", "a", "l">>, <<"c", "o", "r", "e">>, <<"m", "a", "i", "n">>, <<"s", "e", "r", "v", "e", "r">>,
                                   <<"c", "l", "i", "e", "n", "t">>}}]

TEST_DIRS_REGEX ==
    [name |-> "TEST_DIRS_REGEX", flags |-> {"i"}, closed |-> FALSE,
     words |-> {d \o <<"/">> : d \in {<<"t", "e", "s", "t">>, <<"t", "e", "s", "t", "s">>, <<"s", "p", "e", "c">>, <<"e", "2", "e">>}}]

DOCS_DIRS_REGEX ==
    [name |-> "DOCS_DIRS_REGEX", flags |-> {"i"}, closed |-> FALSE,
     words |-> {d \o <<"/">> : d \in {<<"d", "o", "c">>, <<"d", "o", "c", "s">>, <<"d", "o", "c", "u", "m", "e", "n", "t", "a", "t", "i", "o", "n">>, <<"e", "x", "a", "m", "p", "l", "e", "s">>}}]

RegExpNames ==
    {"README_FILES_REGEX", "LICENSE_FILES_REGEX", "MANIFEST_FILES_REGEX",
     "COMMON_SOURCE_DIRS_REGEX", "TEST_DIRS_REGEX", "DOCS_DIRS_REGEX"}

\* Every RegExp object is created with lastIndex 0.
LastIndexInit == [n \in RegExpNames |-> 0]

\* Character comparison under the flags: i compares canonicalised characters.
SameUnder(flags, a, b) ==
    IF "i" \in flags THEN toLowerCase(a) = toLowerCase(b) ELSE a = b

\* The end index of the match of re that starts at index 0 of s, or -1.
MatchEnd(re, s) ==
    LET hit(w) == IF re.closed
                  THEN Len(s) = Len(w) /\ SameUnder(re.flags, s, w)
                  ELSE Len(s) >= Len(w) /\ SameUnder(re.flags, SubSeq(s, 1, Len(w)), w)
    IN IF \E w \in re.words : hit(w)
       THEN Len(CHOOSE w \in re.words : hit(w))
       ELSE -1

\* RegExp.prototype.test(s) with the RegExp objects' lastIndex fields li:
\* whether s matches, and the lastIndex fields afterwards.  Without g or y
\* the search starts at 0 and lastIndex is left alone; with g or y it starts
\* at lastIndex (where ^ can match only if that is 0), and lastIndex becomes
\* the end of the match, or 0 when there is none.
RegExpTest(re, s, li) ==
    LET stateful == ("g" \in re.flags) \/ ("y" \in re.flags)
        start == IF stateful THEN li[re.name] ELSE 0
        e == IF start = 0 THEN MatchEnd(re, s) ELSE -1
    IN [matched |-> e >= 0,
        lastIndex |-> IF stateful
                      THEN [li EXCEPT ![re.name] = IF e >= 0 THEN e ELSE 0]
                      ELSE li]

\* Mutant: the documentation rule is tested ahead of the entry-point hint.
getFilePriority_docsBeforeHint(file, li) ==
    LET lowerPath == toLowerCase(file.path)
        hasExt == \E ext \in SOURCE_FILE_EXTENSIONS : endsWith(lowerPath, ext)
        matches(re, s) == RegExpTest(re, s, li).matched
        hint == \/ includes(lowerPath, <<"m", "a", "i", "n">>)
                \/ includes(lowerPath, <<"a", "p", "p">>)
                \/ includes(lowerPath, <<"i", "n", "d", "e", "x">>)
                \/ includes(lowerPath, <<"c", "o", "n", "f", "i", "g">>)
    IN [tier |-> IF matches(README_FILES_REGEX, file.name) THEN 1
                 ELSE IF matches(LICENSE_FILES_REGEX, file.name) THEN 2
                 ELSE IF matches(MANIFEST_FILES_REGEX, file.name) THEN 3
                 ELSE IF hasExt /\ matches(COMMON_SOURCE_DIRS_REGEX, lowerPath) THEN 4
                 ELSE IF hasExt /\ matches(DOCS_DIRS_REGEX, lowerPath) THEN 7
                 ELSE IF hasExt /\ hint THEN 5
                 ELSE IF hasExt /\ ~matches(TEST_DIRS_REGEX, lowerPath) THEN 6
                 ELSE 10,
        lastIndex |-> li]

(***************************************************************************)
(* getFilePriority: the tier of a file, and the lastIndex fields after the *)
(* call.  The tests run in the order of the code, each on the lastIndex    *)
(* fields its predecessors left, and a test behind a return or a           *)
(* short-circuit is not run.                                               *)
(***************************************************************************)
getFilePriority(file, li) ==
    LET lowerPath == toLowerCase(file.path)
        hasExt == \E ext \in SOURCE_FILE_EXTENSIONS : endsWith(lowerPath, ext)
        r1 == RegExpTest(README_FILES_REGEX, file.name, li)
        r2 == RegExpTest(LICENSE_FILES_REGEX, file.name, r1.lastIndex)
        r3 == RegExpTest(MANIFEST_FILES_REGEX, file.name, r2.lastIndex)
        r4 == RegExpTest(COMMON_SOURCE_DIRS_REGEX, lowerPath, r3.lastIndex)
        hint == \/ includes(lowerPath, <<"m", "a", "i", "n">>)
                \/ includes(lowerPath, <<"a", "p", "p">>)
                \/ includes(lowerPath, <<"i", "n", "d", "e", "x">>)
                \/ includes(lowerPath, <<"c", "o", "n", "f", "i", "g">>)
        r6t == RegExpTest(TEST_DIRS_REGEX, lowerPath, r4.lastIndex)
        r6d == RegExpTest(DOCS_DIRS_REGEX, lowerPath, r6t.lastIndex)
        \* the lastIndex fields on reaching the documentation rule
        liDocs == IF ~hasExt THEN r3.lastIndex
                  ELSE IF r6t.matched THEN r6t.lastIndex ELSE r6d.lastIndex
        r7 == RegExpTest(DOCS_DIRS_REGEX, lowerPath, liDocs)
    IN IF r1.matched THEN [tier |-> 1, lastIndex |-> r1.lastIndex]
       ELSE IF r2.matched THEN [tier |-> 2, lastIndex |-> r2.lastIndex]
       ELSE IF r3.matched THEN [tier |-> 3, lastIndex |-> r3.lastIndex]
       ELSE IF hasExt /\ r4.matched THEN [tier |-> 4, lastIndex |-> r4.lastIndex]
       ELSE IF hasExt /\ hint THEN [tier |-> 5, lastIndex |-> r4.lastIndex]
       ELSE IF hasExt /\ ~r6t.matched /\ ~r6d.matched
            THEN [tier |-> 6, lastIndex |-> r6d.lastIndex]
       ELSE IF r7.matched /\ hasExt THEN [tier |-> 7, lastIndex |-> r7.lastIndex]
       ELSE [tier |-> 10, lastIndex |-> r7.lastIndex]


\* Mutant: the comparator puts the entries that carry content first.
priority_readsContent(file) ==
    IF IsSome(file.content) THEN 0 ELSE getFilePriority(file, LastIndexInit).tier

\* The tier alone.  No RegExp object of the tool carries the g or y flag, so
\* the lastIndex fields stay at 0 over every call (LastIndexStaysZero below).
priority(file) == getFilePriority(file, LastIndexInit).tier

(***************************************************************************)
(* Text: a fetched body, run-length encoded.  <<[c |-> "a", n |-> 3],      *)
(* [c |-> "b", n |-> 1]>> is "aaab".  A Text is canonical: every run has    *)
(* n > 0 and neighbouring runs differ in c, so two Texts are equal exactly *)
(* when the strings are.                                                   *)
(***************************************************************************)
RECURSIVE TextLength(_)
TextLength(t) == IF t = <<>> THEN 0 ELSE t[1].n + TextLength(Tail(t))

\* a + b
TextConcat(a, b) ==
    IF a = <<>> THEN b
    ELSE IF b = <<>> THEN a
    ELSE IF a[Len(a)].c = b[1].c
         THEN SubSeq(a, 1, Len(a) - 1)
              \o <<[c |-> b[1].c, n |-> a[Len(a)].n + b[1].n]>>
              \o Tail(b)
         ELSE a \o b

\* t.substring(0, k)
RECURSIVE TextSubstring0(_, _)
TextSubstring0(t, k) ==
    IF k <= 0 \/ t = <<>> THEN <<>>
    ELSE IF t[1].n >= k THEN <<[c |-> t[1].c, n |-> k]>>
    ELSE <<t[1]>> \o TextSubstring0(Tail(t), k - t[1].n)

\* The Text of a string literal.
RECURSIVE TextOf(_)
TextOf(s) ==
    IF s = <<>> THEN <<>>
    ELSE TextConcat(<<[c |-> s[1], n |-> 1]>>, TextOf(Tail(s)))

\* c repeated n times
Repeat(c, n) == IF n <= 0 THEN <<>> ELSE <<[c |-> c, n |-> n]>>

MAX_FILES_FOR_CONTENT_FETCH == 12
MAX_FILE_CONTENT_LENGTH == 20000
MAX_CONTRIBUTORS_TO_FETCH == 15

\* "\n... (file content truncated)"
TruncationMarker == TextOf(<<"\n", ".", ".", ".", " ", "(", "f", "i", "l", "e", " ", "c", "o", "n", "t", "e", "n", "t", " ", "t", "r", "u", "n", "c", "a", "t", "e", "d", ")">>)

(***************************************************************************)
(* Messages.  A message of the tool is its template (kind) and the values  *)
(* the template embeds that the claims look at: the status of a response,  *)
(* the size of a file.  The URL and the path a message also embeds are     *)
(* those of the entry or request it belongs to.                            *)
(***************************************************************************)
Message(kind, status, size) == [kind |-> kind, status |-> status, size |-> size]

\* `No download URL could be constructed for file: ${file.path}`
NoDownloadUrlError == Message("No download URL could be constructed for file", 0, 0)
\* `File content not found at ${downloadUrl} (404).`
NotFoundError == Message("File content not found (404)", 404, 0)
\* `Failed to fetch file content from ${downloadUrl}. Status: ${status} ${statusText}`
FailedStatusError(status) == Message("Failed to fetch file content. Status", status, 0)
\* `Exception fetching file content: ${e.message}`
ExceptionError == Message("Exception fetching file content", 0, 0)
\* `File too large to fetch content (${file.size} bytes). Not a priority file.`
TooLargeError(size) ==
    Message("File too large to fetch content. Not a priority file.", 0, size)
\* 'Content not fetched due to limit (MAX_FILES_FOR_CONTENT_FETCH reached).'
LimitError == Message("Content not fetched due to limit (MAX_FILES_FOR_CONTENT_FETCH reached).", 0, 0)

(***************************************************************************)
(* URLs of raw content                                                     *)
(***************************************************************************)
\* encodeURIComponent on the characters paths of the model are made of:
\* letters, digits, - _ . stay, / becomes %2F and a blank %20.
RECURSIVE encodeURIComponent(_)
encodeURIComponent(s) ==
    IF s = <<>> THEN <<>>
    ELSE (IF s[1] = "/" THEN <<"%", "2", "F">>
          ELSE IF s[1] = " " THEN <<"%", "2", "0">>
          ELSE <<s[1]>>) \o encodeURIComponent(Tail(s))

\* `https://raw.githubusercontent.com/${owner}/${repo}/${branch}/${path}`
RawUrl(owner, repo, branch, path) ==
    [host |-> "raw.githubusercontent.com", owner |-> owner, repo |-> repo,
     branch |-> branch, path |-> path]

(***************************************************************************)
(* Responses of the network.  kind is "ok" (2xx), "status" (any other      *)
(* status) or "throw" (fetch, or reading the body, raised).                *)
(***************************************************************************)
Ok(body) == [kind |-> "ok", status |-> 200, body |-> body]
Status(n) == [kind |-> "status", status |-> n, body |-> <<>>]
Throw == [kind |-> "throw", status |-> 0, body |-> <<>>]

\* Mutant: a text of exactly the cap is cut as well.
ContentOf_inclusive(textContent) ==
    IF TextLength(textContent) >= MAX_FILE_CONTENT_LENGTH
    THEN TextConcat(TextSubstring0(textContent, MAX_FILE_CONTENT_LENGTH), TruncationMarker)
    ELSE textContent

\* Lines 145-148: the content returned for a fetched text.
ContentOf(textContent) ==
    IF TextLength(textContent) > MAX_FILE_CONTENT_LENGTH
    THEN TextConcat(TextSubstring0(textContent, MAX_FILE_CONTENT_LENGTH), TruncationMarker)
    ELSE textContent

\* Mutant: a 404 is returned as a file without content and without error.
fetchFileContent_silent404(file, owner, repo, defaultBranch, resp) ==
    LET downloadUrl ==
            IF ~IsSome(file.download_url) /\ IsSome(file.sha) /\ Len(file.path) > 0
            THEN Some(RawUrl(owner, repo, defaultBranch, encodeURIComponent(file.path)))
            ELSE file.download_url
    IN IF ~IsSome(downloadUrl)
       THEN [content |-> None, error |-> Some(NoDownloadUrlError), requested |-> None]
       ELSE IF resp.kind = "ok"
       THEN [content |-> Some(ContentOf(resp.body)), error |-> None,
             requested |-> downloadUrl]
       ELSE IF resp.kind = "status" /\ resp.status = 404
       THEN [content |-> None, error |-> None, requested |-> downloadUrl]
       ELSE IF resp.kind = "status"
       THEN [content |-> None, error |-> Some(FailedStatusError(resp.status)),
             requested |-> downloadUrl]
       ELSE [content |-> None, error |-> Some(ExceptionError), requested |-> downloadUrl]

(***************************************************************************)
(* fetchFileContent.  resp is what the network answers if a request is     *)
(* made.  The result holds content, error and the URL requested (None if   *)
(* the function returned before any request).                              *)
(***************************************************************************)
fetchFileContent(file, owner, repo, defaultBranch, resp) ==
    LET downloadUrl ==
            IF ~IsSome(file.download_url) /\ IsSome(file.sha) /\ Len(file.path) > 0
            THEN Some(RawUrl(owner, repo, defaultBranch, encodeURIComponent(file.path)))
            ELSE file.download_url
        textContent == resp.body
    IN IF ~IsSome(downloadUrl)
       THEN [content |-> None, error |-> Some(NoDownloadUrlError), requested |-> None]
       ELSE IF resp.kind = "ok"
       THEN [content |-> Some(ContentOf(textContent)), error |-> None,
             requested |-> downloadUrl]
       ELSE IF resp.kind = "status" /\ resp.status = 404
       THEN [content |-> None, error |-> Some(NotFoundError), requested |-> downloadUrl]
       ELSE IF resp.kind = "status"
       THEN [content |-> None, error |-> Some(FailedStatusError(resp.status)),
             requested |-> downloadUrl]
       ELSE [content |-> None, error |-> Some(ExceptionError), requested |-> downloadUrl]

\* JavaScript truthiness of a content (a string or undefined)
TruthyText(o) == IsSome(o) /\ TextLength(Val(o)) > 0

(***************************************************************************)
(* Array.prototype.sort((a, b) => getFilePriority(a) - getFilePriority(b)):*)
(* the entries in ascending order of tier and, the sort being stable, the  *)
(* entries of one tier in the order they had.                              *)
(***************************************************************************)
\* the tiers of the entries of a list, in order
RECURSIVE Tiers(_)
Tiers(list) ==
    IF list = <<>> THEN <<>> ELSE <<priority(Head(list))>> \o Tiers(Tail(list))

\* Mutant: the comparator is written b - a.
RECURSIVE Ascending_descending(_)
Ascending_descending(numbers) ==
    IF numbers = {} THEN <<>>
    ELSE LET most == CHOOSE x \in numbers : \A y \in numbers : x >= y
         IN <<most>> \o Ascending_descending(numbers \ {most})

\* the numbers of a finite set in ascending order
RECURSIVE Ascending(_)
Ascending(numbers) ==
    IF numbers = {} THEN <<>>
    ELSE LET least == CHOOSE x \in numbers : \A y \in numbers : x <= y
         IN <<least>> \o Ascending(numbers \ {least})

\* the indices of key that hold k, in ascending order
IndicesOf(key, k) == SelectSeq([i \in DOMAIN key |-> i], LAMBDA i : key[i] = k)

\* Mutant: the entries of one tier come out in reverse.
RECURSIVE SortedIndices_unstable(_, _)
SortedIndices_unstable(key, tiers) ==
    IF tiers = <<>> THEN <<>>
    ELSE LET same == IndicesOf(key, Head(tiers))
         IN [i \in DOMAIN same |-> same[Len(same) + 1 - i]]
            \o SortedIndices_unstable(key, Tail(tiers))

\* the indices of key, those of the first tier of tiers first
RECURSIVE SortedIndices(_, _)
SortedIndices(key, tiers) ==
    IF tiers = <<>> THEN <<>>
    ELSE IndicesOf(key, Head(tiers)) \o SortedIndices(key, Tail(tiers))

\* the entries of files in the order of the indices
Permuted(files, order) == [k \in DOMAIN files |-> files[order[k]]]

\* getFilePriority is called on the entries, and the entries are put in the
\* stable ascending order of the tiers it returned
SortByPriority(files) ==
    CHOOSE sorted \in
        {Permuted(files, order) :
            order \in {SortedIndices(key, Ascending({key[i] : i \in DOMAIN key})) :
                          key \in {Tiers(files)}}} : TRUE

(***************************************************************************)
(* Bounds of the model                                                     *)
(***************************************************************************)
\* source files under src/ of the widget repository
NumSourceFiles == 13
\* content requests of one run that the network fails
MaxFetchFailures == 1
\* calls of getFilePriority in one classifier run
MaxCalls == 3
\* .ts source files of the scenario repository
NumScenarioFiles == 50

(***************************************************************************)
(* The repositories GitHub serves in the model.  A tree item carries, next *)
(* to what the API returns (path, type, size, sha), the text the raw host  *)
(* serves for it.                                                          *)
(***************************************************************************)
Blob(path, size, text) ==
    [path |-> path, type |-> "blob", size |-> Some(size), sha |-> Some("sha"), text |-> text]
Dir(path) ==
    [path |-> path, type |-> "tree", size |-> None, sha |-> Some("sha"), text |-> <<>>]
Submodule(path) ==
    [path |-> path, type |-> "commit", size |-> None, sha |-> Some("sha"), text |-> <<>>]
\* a file whose text is size bytes of x
Plain(path, size) == Blob(path, size, Repeat("x", size))

\* an item of the top-level contents listing
Listed(name, path, type, size, sha, download_url) ==
    [name |-> name, path |-> path, type |-> type, size |-> size, sha |-> sha,
     download_url |-> download_url]

Letters == <<"a", "b", "c", "d", "e", "f", "g", "h", "i", "j", "k", "l", "m", "n", "o", "p", "q", "r", "s", "t", "u", "v", "w", "x", "y", "z">>
Acme == <<"a", "c", "m", "e">>
Widget == <<"w", "i", "d", "g", "e", "t">>

User(login) ==
    [login |-> Some(login), avatar_url |-> Some("avatar"), html_url |-> Some("profile"),
     contributions |-> Some(3), type |-> Some("User")]

\* More records than MAX_CONTRIBUTORS_TO_FETCH: users "1", "2", ..., every
\* fifth record a bot and every seventh without html_url, and among them a
\* record without type, a record with an empty login and a record without
\* avatar_url.
ManyContributors ==
    [i \in 1..(MAX_CONTRIBUTORS_TO_FETCH + 11) |->
        IF i % 5 = 0 THEN [User(ToString(i)) EXCEPT !.type = Some("Bot")]
        ELSE IF i % 7 = 0 THEN [User(ToString(i)) EXCEPT !.html_url = None]
        ELSE IF i = 3 THEN [User(ToString(i)) EXCEPT !.type = None]
        ELSE IF i = 4 THEN [User(ToString(i)) EXCEPT !.login = Some("")]
        ELSE IF i = 8 THEN [User(ToString(i)) EXCEPT !.avatar_url = None]
        ELSE User(ToString(i))]

SomeContributors ==
    <<User("alice"),
      [User("dependabot") EXCEPT !.type = Some("Bot")],
      [User("ghost") EXCEPT !.avatar_url = None],
      User("bob")>>

\* README.md, package.json and NumSourceFiles source files under src/, of
\* which src/b.ts is longer than the cap and src/c.ts is empty.
WidgetRepo ==
    [name |-> "widget", default_branch |-> Some(<<"m", "a", "i", "n">>), truncated |-> FALSE,
     tree |-> <<Dir(<<"s", "r", "c">>)>>
              \o [i \in 1..NumSourceFiles |->
                    IF i = 2 THEN Blob(<<"s", "r", "c", "/", "b", ".", "t", "s">>, 25000,
                                       TextConcat(Repeat("x", 20000), Repeat("y", 5000)))
                    ELSE IF i = 3 THEN Plain(<<"s", "r", "c", "/", "c", ".", "t", "s">>, 0)
                    ELSE Plain(<<"s", "r", "c", "/">> \o <<Letters[i]>> \o <<".", "t", "s">>, 100)]
              \o <<Plain(<<"p", "a", "c", "k", "a", "g", "e", ".", "j", "s", "o", "n">>, 200), Plain(<<"R", "E", "A", "D", "M", "E", ".", "m", "d">>, 500)>>,
     contents |-> <<Listed(<<"s", "r", "c">>, <<"s", "r", "c">>, "dir", Some(0), Some("sha"), None),
                    Listed(<<"p", "a", "c", "k", "a", "g", "e", ".", "j", "s", "o", "n">>, <<"p", "a", "c", "k", "a", "g", "e", ".", "j", "s", "o", "n">>, "file", Some(200), Some("sha"),
                           Some(RawUrl(Acme, Widget, <<"m", "a", "i", "n">>, <<"p", "a", "c", "k", "a", "g", "e", ".", "j", "s", "o", "n">>))),
                    Listed(<<"R", "E", "A", "D", "M", "E", ".", "m", "d">>, <<"R", "E", "A", "D", "M", "E", ".", "m", "d">>, "file", Some(500), Some("sha"),
                           Some(RawUrl(Acme, Widget, <<"m", "a", "i", "n">>, <<"R", "E", "A", "D", "M", "E", ".", "m", "d">>)))>>,
     contributors |-> ManyContributors]

\* Ten small source files, and files larger than three times the cap:
\* app/huge.sql sorts before the small files and lib/zbig.TS, docs/big.py
\* and data.bin after them; package-lock.json is a manifest.  app/edge.sql
\* is exactly three times the cap.
BigFilesRepo ==
    [name |-> "bigfiles", default_branch |-> Some(<<"m", "a", "i", "n">>), truncated |-> FALSE,
     tree |-> <<Plain(<<"d", "a", "t", "a", ".", "b", "i", "n">>, 500000), Plain(<<"d", "o", "c", "s", "/", "b", "i", "g", ".", "p", "y">>, 70000),
                Plain(<<"a", "p", "p", "/", "h", "u", "g", "e", ".", "s", "q", "l">>, 60001), Plain(<<"a", "p", "p", "/", "e", "d", "g", "e", ".", "s", "q", "l">>, 60000)>>
              \o [i \in 1..10 |-> Plain(<<"l", "i", "b", "/">> \o <<Letters[i]>> \o <<".", "p", "y">>, 10)]
              \o <<Plain(<<"l", "i", "b", "/", "z", "b", "i", "g", ".", "T", "S">>, 500000), Plain(<<"p", "a", "c", "k", "a", "g", "e", "-", "l", "o", "c", "k", ".", "j", "s", "o", "n">>, 300000),
                   Plain(<<"n", "o", "t", "e", "s", ".", "t", "x", "t">>, 10)>>,
     contents |-> <<Listed(<<"d", "a", "t", "a", ".", "b", "i", "n">>, <<"d", "a", "t", "a", ".", "b", "i", "n">>, "file", Some(500000), Some("sha"),
                           Some(RawUrl(Acme, Widget, <<"m", "a", "i", "n">>, <<"d", "a", "t", "a", ".", "b", "i", "n">>))),
                    Listed(<<"l", "i", "b">>, <<"l", "i", "b">>, "dir", Some(0), Some("sha"), None)>>,
     contributors |-> <<>>]

\* Thirteen empty source files.
EmptyFilesRepo ==
    [name |-> "empties", default_branch |-> Some(<<"m", "a", "i", "n">>), truncated |-> FALSE,
     tree |-> [i \in 1..13 |-> Plain(<<"p", "k", "g", "/">> \o <<Letters[i]>> \o <<".", "g", "o">>, 0)],
     contents |-> <<Listed(<<"p", "k", "g">>, <<"p", "k", "g">>, "dir", Some(0), Some("sha"), None)>>,
     contributors |-> <<User("carol")>>]

\* A small repository without a default_branch in its details; its listing
\* holds an entry without download_url, one without download_url and sha, a
\* symlink and an entry with an empty path.
SmallRepo ==
    [name |-> "small", default_branch |-> None, truncated |-> FALSE,
     tree |-> <<Plain(<<"L", "I", "C", "E", "N", "S", "E">>, 300), Dir(<<"d", "o", "c", "s">>), Plain(<<"d", "o", "c", "s", "/", "i", "n", "d", "e", "x", ".", "h", "t", "m", "l">>, 40),
                Submodule(<<"v", "e", "n", "d", "o", "r">>), Plain(<<"m", "a", "i", "n", ".", "c">>, 10)>>,
     contents |-> <<Listed(<<"L", "I", "C", "E", "N", "S", "E">>, <<"L", "I", "C", "E", "N", "S", "E">>, "file", Some(300), Some("sha"),
                           Some(RawUrl(Acme, Widget, <<"m", "a", "s", "t", "e", "r">>, <<"L", "I", "C", "E", "N", "S", "E">>))),
                    Listed(<<"m", "a", "i", "n", ".", "c">>, <<"m", "a", "i", "n", ".", "c">>, "file", Some(10), Some("sha"), None),
                    Listed(<<"o", "d", "d", ".", "c">>, <<"o", "d", "d", ".", "c">>, "file", None, None, None),
                    Listed(<<"l", "i", "n", "k">>, <<"l", "i", "n", "k">>, "symlink", Some(4), Some("sha"), None),
                    Listed(<<"n", "o", "p", "a", "t", "h">>, <<>>, "file", Some(1), Some("sha"), None),
                    Listed(<<"d", "o", "c", "s">>, <<"d", "o", "c", "s">>, "dir", Some(0), Some("sha"), None)>>,
     contributors |-> SomeContributors]

\* The same repository, its recursive tree reported truncated by GitHub.
SmallRepoTruncated == [SmallRepo EXCEPT !.truncated = TRUE]

Remotes == <<SmallRepo, SmallRepoTruncated, WidgetRepo, BigFilesRepo, EmptyFilesRepo>>

\* The path of the i-th source file of the scenario repository: under src/
\* for odd i, at the root for even i.
ScenarioPath(i) ==
    (IF i % 2 = 1 THEN <<"s", "r", "c", "/">> ELSE <<>>)
    \o <<Letters[((i - 1) \div 26) + 1], Letters[((i - 1) % 26) + 1]>> \o <<".", "t", "s">>

\* README.md (500 bytes), package.json (200 bytes) and NumScenarioFiles
\* non-empty .ts files, listed sources first.
ScenarioARepo ==
    [name |-> "widget", default_branch |-> Some(<<"m", "a", "i", "n">>), truncated |-> FALSE,
     tree |-> <<Dir(<<"s", "r", "c">>)>>
              \o [i \in 1..NumScenarioFiles |-> Plain(ScenarioPath(i), 100)]
              \o <<Plain(<<"p", "a", "c", "k", "a", "g", "e", ".", "j", "s", "o", "n">>, 200), Plain(<<"R", "E", "A", "D", "M", "E", ".", "m", "d">>, 500)>>,
     contents |-> <<Listed(<<"s", "r", "c">>, <<"s", "r", "c">>, "dir", Some(0), Some("sha"), None),
                    Listed(<<"a", "b", ".", "t", "s">>, <<"a", "b", ".", "t", "s">>, "file", Some(100), Some("sha"), None),
                    Listed(<<"p", "a", "c", "k", "a", "g", "e", ".", "j", "s", "o", "n">>, <<"p", "a", "c", "k", "a", "g", "e", ".", "j", "s", "o", "n">>, "file", Some(200), Some("sha"),
                           Some(RawUrl(Acme, Widget, <<"m", "a", "i", "n">>, <<"p", "a", "c", "k", "a", "g", "e", ".", "j", "s", "o", "n">>))),
                    Listed(<<"R", "E", "A", "D", "M", "E", ".", "m", "d">>, <<"R", "E", "A", "D", "M", "E", ".", "m", "d">>, "file", Some(500), Some("sha"),
                           Some(RawUrl(Acme, Widget, <<"m", "a", "i", "n">>, <<"R", "E", "A", "D", "M", "E", ".", "m", "d">>)))>>,
     contributors |-> SomeContributors]

\* README.md, LICENSE and eleven manifests, more than the limit can take,
\* and behind them a source file, a source file with its extension in
\* capitals, a documentation source file and a text file.
MixedRepo ==
    [name |-> "mixed", default_branch |-> Some(<<"m", "a", "i", "n">>), truncated |-> FALSE,
     tree |-> <<Plain(<<"n", "o", "t", "e", "s", ".", "t", "x", "t">>, 10), Dir(<<"l", "i", "b">>), Plain(<<"l", "i", "b", "/", "U", "t", "i", "l", ".", "R", "B">>, 10),
                Plain(<<"l", "i", "b", "/", "a", ".", "r", "b">>, 10), Plain(<<"d", "o", "c", "s", "/", "x", ".", "p", "y">>, 10), Plain(<<"M", "a", "k", "e", "f", "i", "l", "e">>, 10),
                Plain(<<"D", "o", "c", "k", "e", "r", "f", "i", "l", "e">>, 10), Plain(<<"g", "o", ".", "m", "o", "d">>, 10), Plain(<<"g", "o", ".", "s", "u", "m">>, 10),
                Plain(<<"C", "a", "r", "g", "o", ".", "t", "o", "m", "l">>, 10), Plain(<<"C", "a", "r", "g", "o", ".", "l", "o", "c", "k">>, 10), Plain(<<"p", "o", "m", ".", "x", "m", "l">>, 10),
                Plain(<<"G", "e", "m", "f", "i", "l", "e">>, 10), Plain(<<"y", "a", "r", "n", ".", "l", "o", "c", "k">>, 10), Plain(<<"p", "a", "c", "k", "a", "g", "e", ".", "j", "s", "o", "n">>, 10),
                Plain(<<"c", "o", "m", "p", "o", "s", "e", "r", ".", "j", "s", "o", "n">>, 10), Plain(<<"L", "I", "C", "E", "N", "S", "E">>, 10), Plain(<<"R", "E", "A", "D", "M", "E", ".", "m", "d">>, 10)>>,
     contents |-> <<Listed(<<"l", "i", "b">>, <<"l", "i", "b">>, "dir", Some(0), Some("sha"), None),
                    Listed(<<"n", "o", "t", "e", "s", ".", "t", "x", "t">>, <<"n", "o", "t", "e", "s", ".", "t", "x", "t">>, "file", Some(10), Some("sha"),
                           Some(RawUrl(Acme, Widget, <<"m", "a", "i", "n">>, <<"n", "o", "t", "e", "s", ".", "t", "x", "t">>)))>>,
     contributors |-> <<>>]

\* The repositories of the scenario runs: the scenario repository, the
\* small repository (fewer files than the limit) and the mixed repository.
ScenarioRemotes == <<ScenarioARepo, SmallRepo, MixedRepo>>

\* The text the raw host serves for a path of a repository.
RemoteText(remote, path) ==
    IF \E i \in 1..Len(remote.tree) : remote.tree[i].path = path
    THEN remote.tree[CHOOSE i \in 1..Len(remote.tree) : remote.tree[i].path = path].text
    ELSE <<>>

(***************************************************************************)
(* The repoUrl inputs.  new URL(repoUrl) either throws or yields a         *)
(* pathname.                                                               *)
(***************************************************************************)
Url(parses, pathname) == [parses |-> parses, pathname |-> pathname]

BadUrls == {Url(FALSE, <<>>), Url(TRUE, <<"/">>), Url(TRUE, <<"/", "a", "c", "m", "e">>), Url(TRUE, <<"/", "a", "c", "m", "e", "/">>)}
GoodUrls == {Url(TRUE, <<"/", "a", "c", "m", "e", "/", "w", "i", "d", "g", "e", "t">>), Url(TRUE, <<"/", "a", "c", "m", "e", "/", "w", "i", "d", "g", "e", "t", ".", "g", "i", "t">>),
             Url(TRUE, <<"/", "/", "a", "c", "m", "e", "/", "/", "w", "i", "d", "g", "e", "t", "/", "t", "r", "e", "e", "/", "m", "a", "i", "n">>),
             Url(TRUE, <<"/", "a", "c", "m", "e", "/", ".", "g", "i", "t">>), Url(TRUE, <<"/", "a", "c", "m", "e", "/", "w", "i", "d", "g", "e", "t", ".", "g", "i", "t", ".", "g", "i", "t">>)}

\* The runs of the model: a repoUrl and the repository GitHub serves for it.
Scenarios ==
    {[repoUrl |-> u, remote |-> 1] : u \in BadUrls \cup GoodUrls}
    \cup {[repoUrl |-> Url(TRUE, <<"/", "a", "c", "m", "e", "/", "w", "i", "d", "g", "e", "t">>), remote |-> r] : r \in 2..Len(Remotes)}


(***************************************************************************)
(* State                                                                   *)
(***************************************************************************)
VARIABLES
    pc,                   \* where the run of fetchRepoInfoTool stands
    input,                \* the scenario of the run: repoUrl and repository
    owner, repo,          \* the RepoIdentifier parsed from repoUrl
    requests,             \* the network requests issued so far, in order
    repoDetails,          \* the parsed body of the repository details
    defaultBranch,
    treeOutcome,          \* how the recursive tree request ended
    allFilesFromTree,
    filesOnly,            \* the candidates, sorted by tier
    cursor,               \* index in filesOnly of the file the loop is at
    repoContents,
    fetchedContentCount,
    failures,             \* content requests the network has failed
    attempts,             \* history: the paths fetchFileContent was called for, in order
    countWhenReached,     \* history: fetchedContentCount as the loop reached each file
    contributorsOutcome,  \* history: how the contributors request ended
    contributorsList,
    result,               \* what the tool returned
    lastIndex,            \* the lastIndex field of each RegExp object
    cFile,                \* classifier run: the file entry being classified
    cFirst,               \* classifier run: the tier the first call returned
    cLast,                \* classifier run: the tier the latest call returned
    cCalls,               \* classifier run: calls of getFilePriority so far
    fArgs,                \* content run: arguments of fetchFileContent
    fOut,                 \* content run: what fetchFileContent returned
    fpc,                  \* flow run: where generateReadmeFlow stands
    flowInput,            \* flow run: the input of generateReadmeFlow
    promptCalls,          \* flow run: invocations of the generation prompt so far
    originalReadmeContent,
    translateCalls,       \* flow run: the languages translateReadme was invoked for, in order
    translationResults,   \* flow run: what each translation promise resolved to
    flowOutput,           \* flow run: what generateReadmeFlow returned
    flowError,            \* flow run: the message of the Error generateReadmeFlow threw
    inFlight,             \* the candidates whose content request has not settled yet
    currentView,          \* page: 'form', 'loading' or 'results'
    generatedReadmes,     \* page: the README set on display
    originalGeneratedReadmes, \* page: fileName -> content as generated
    pageError,            \* page: the state 'error', the error on display or null
    isLoadingImprove,
    pendingGenerate,      \* page: the generateReadme call awaited by handleGenerateReadme
    pendingImprove,       \* page: the improveReadme calls awaited by handleImproveReadme
    readmeSet             \* history: the number of the README set on display

toolVars == <<pc, input, owner, repo, requests, repoDetails, defaultBranch, treeOutcome,
              allFilesFromTree, filesOnly, cursor, repoContents, fetchedContentCount,
              failures, attempts, countWhenReached, contributorsOutcome, contributorsList,
              result>>
classifierVars == <<lastIndex, cFile, cFirst, cLast, cCalls>>
contentVars == <<fArgs, fOut>>
flowVars == <<fpc, flowInput, promptCalls, originalReadmeContent, translateCalls,
              translationResults, flowOutput, flowError>>
loopVars == <<inFlight>>
pageVars == <<currentView, generatedReadmes, originalGeneratedReadmes, pageError, isLoadingImprove,
              pendingGenerate, pendingImprove, readmeSet>>
vars == <<toolVars, classifierVars, contentVars, flowVars, loopVars, pageVars>>

AllRemotes == Remotes \o ScenarioRemotes
Remote == AllRemotes[input.remote]

\* one network request: which endpoint, and for raw content which URL
Request(api, url) == [api |-> api, url |-> url]

\* Mutant: an early return that carries an empty repoContents.
ErrorResult_partial(message) ==
    [error |-> Some(message), repoName |-> None, repoContents |-> Some(<<>>),
     contributors |-> None, toolInput |-> input.repoUrl]

\* the returned RepoInfo; the fields an early return leaves out are None
ErrorResult(message) ==
    [error |-> Some(message), repoName |-> None, repoContents |-> None,
     contributors |-> None, toolInput |-> input.repoUrl]

ToolIdle ==
    /\ pc = "Idle"
    /\ input = [repoUrl |-> Url(FALSE, <<>>), remote |-> 1]
    /\ owner = <<>>
    /\ repo = <<>>
    /\ requests = <<>>
    /\ repoDetails = None
    /\ defaultBranch = <<>>
    /\ treeOutcome = "none"
    /\ allFilesFromTree = <<>>
    /\ filesOnly = <<>>
    /\ cursor = 1
    /\ repoContents = <<>>
    /\ fetchedContentCount = 0
    /\ failures = 0
    /\ attempts = <<>>
    /\ countWhenReached = <<>>
    /\ contributorsOutcome = "none"
    /\ contributorsList = None
    /\ result = None
    /\ inFlight = {}

ClassifierIdle ==
    /\ lastIndex = LastIndexInit
    /\ cFile = None
    /\ cFirst = None
    /\ cLast = None
    /\ cCalls = 0

ContentIdle ==
    /\ fArgs = None
    /\ fOut = None

\* page.tsx line 113: result.readmes.reduce((acc, r) => ({...acc, [r.fileName]: r.content}), {});
\* a later entry of the same fileName replaces an earlier one
originalMap(readmes) ==
    [f \in {readmes[i].fileName : i \in DOMAIN readmes} |->
        LET last == CHOOSE i \in DOMAIN readmes :
                        /\ readmes[i].fileName = f
                        /\ \A j \in DOMAIN readmes : readmes[j].fileName = f => j <= i
        IN readmes[last].content]

\* page.tsx lines 74-81: the state of the page after construction
PageIdle ==
    /\ currentView = "form"
    /\ generatedReadmes = <<>>
    /\ originalGeneratedReadmes = originalMap(<<>>)
    /\ pageError = None
    /\ isLoadingImprove = FALSE
    /\ pendingGenerate = None
    /\ pendingImprove = {}
    /\ readmeSet = 0

FlowIdle ==
    /\ fpc = "Idle"
    /\ flowInput = [targetLanguages |-> None]
    /\ promptCalls = 0
    /\ originalReadmeContent = None
    /\ translateCalls = <<>>
    /\ translationResults = <<>>
    /\ flowOutput = None
    /\ flowError = None

(***************************************************************************)
(* fetchRepoInfoTool                                                       *)
(***************************************************************************)
Init ==
    /\ pc = "Parsing"
    /\ input \in Scenarios
    /\ owner = <<>>
    /\ repo = <<>>
    /\ requests = <<>>
    /\ repoDetails = None
    /\ defaultBranch = <<>>
    /\ treeOutcome = "none"
    /\ allFilesFromTree = <<>>
    /\ filesOnly = <<>>
    /\ cursor = 1
    /\ repoContents = <<>>
    /\ fetchedContentCount = 0
    /\ failures = 0
    /\ attempts = <<>>
    /\ countWhenReached = <<>>
    /\ contributorsOutcome = "none"
    /\ contributorsList = None
    /\ result = None
    /\ inFlight = {}
    /\ ClassifierIdle
    /\ ContentIdle
    /\ FlowIdle
    /\ PageIdle

\* pathname.split('/').filter(Boolean): the non-empty segments between slashes
RECURSIVE SplitPath(_, _)
SplitPath(s, segment) ==
    IF s = <<>> THEN (IF segment = <<>> THEN <<>> ELSE <<segment>>)
    ELSE IF s[1] = "/"
         THEN (IF segment = <<>> THEN <<>> ELSE <<segment>>) \o SplitPath(Tail(s), <<>>)
         ELSE SplitPath(Tail(s), Append(segment, s[1]))

\* s.replace(/\.git$/, '')
StripDotGit(s) == IF endsWith(s, <<".", "g", "i", "t">>) THEN SubSeq(s, 1, Len(s) - 4) ELSE s

\* Lines 187-210: parse repoUrl, build the headers, request the details.
ParseUrl ==
    /\ pc = "Parsing"
    /\ LET pathParts == SplitPath(input.repoUrl.pathname, <<>>)
       IN IF ~input.repoUrl.parses
          THEN /\ result' = Some(ErrorResult(Message("Invalid repository URL", 0, 0)))
               /\ pc' = "Error"
               /\ UNCHANGED <<owner, repo, requests>>
          ELSE IF Len(pathParts) < 2
          THEN /\ result' = Some(ErrorResult(Message(
                     "Invalid GitHub repository URL format. Could not extract owner/repo.", 0, 0)))
               /\ pc' = "Error"
               /\ UNCHANGED <<owner, repo, requests>>
          ELSE /\ owner' = pathParts[1]
               /\ repo' = StripDotGit(pathParts[2])
               /\ requests' = Append(requests, Request("repos", None))
               /\ pc' = "FetchingMetadata"
               /\ UNCHANGED result
    /\ UNCHANGED <<input, repoDetails, defaultBranch, treeOutcome, allFilesFromTree, filesOnly,
                   cursor, repoContents, fetchedContentCount, failures, attempts,
                   countWhenReached, contributorsOutcome, contributorsList>>
    /\ UNCHANGED <<classifierVars, contentVars, flowVars, loopVars, pageVars>>

\* what the details request can answer
DetailsResponses ==
    {Ok([name |-> Remote.name, default_branch |-> Remote.default_branch]),
     Status(404), Status(401), Status(403), Status(500), Throw}

\* Mutant: only 401 is taken for an authentication failure.
DetailsError_403unclassified(status) ==
    IF status = 404
    THEN Message("Failed to fetch repository details. This could be an invalid URL or a private repository for which the provided token (if any) is invalid or lacks permissions.", status, 0)
    ELSE IF status = 401
    THEN Message("Failed to fetch repository details. Authentication failed.", status, 0)
    ELSE Message("Failed to fetch repository details. This could also be due to API rate limits.", status, 0)

\* the cause the message names for a status of the details request
DetailsError(status) ==
    IF status = 404
    THEN Message("Failed to fetch repository details. This could be an invalid URL or a private repository for which the provided token (if any) is invalid or lacks permissions.", status, 0)
    ELSE IF status = 401 \/ status = 403
    THEN Message("Failed to fetch repository details. Authentication failed.", status, 0)
    ELSE Message("Failed to fetch repository details. This could also be due to API rate limits.", status, 0)

\* Lines 210-235: the details arrive; on success request the recursive tree.
DetailsResponse ==
    /\ pc = "FetchingMetadata"
    /\ \E resp \in DetailsResponses :
         IF resp.kind = "status"
         THEN /\ result' = Some(ErrorResult(DetailsError(resp.status)))
              /\ pc' = "Error"
              /\ UNCHANGED <<repoDetails, defaultBranch, requests>>
         ELSE IF resp.kind = "throw"
         THEN /\ result' = Some(ErrorResult(Message("Exception fetching repository details", 0, 0)))
              /\ pc' = "Error"
              /\ UNCHANGED <<repoDetails, defaultBranch, requests>>
         ELSE /\ repoDetails' = Some(resp.body)
              /\ defaultBranch' = IF IsSome(resp.body.default_branch)
                                  THEN Val(resp.body.default_branch) ELSE <<"m", "a", "s", "t", "e", "r">>
              /\ requests' = Append(requests, Request("git/trees", None))
              /\ pc' = "FetchingTree"
              /\ UNCHANGED result
    /\ UNCHANGED <<input, owner, repo, treeOutcome, allFilesFromTree, filesOnly, cursor,
                   repoContents, fetchedContentCount, failures, attempts, countWhenReached,
                   contributorsOutcome, contributorsList>>
    /\ UNCHANGED <<classifierVars, contentVars, flowVars, loopVars, pageVars>>


\* A 2xx response whose body is not what the caller reads from it: json()
\* rejects, or the value lacks the array the code maps over.
Malformed == [kind |-> "malformed", status |-> 200, body |-> <<>>]
\* A 2xx response whose JSON body is an object where an array is expected.
NotAnArray == [kind |-> "object", status |-> 200, body |-> <<>>]

\* item.path.split('/').pop()
LastSegment(path) ==
    IF \E i \in 1..Len(path) : path[i] = "/"
    THEN LET last == CHOOSE i \in 1..Len(path) :
                       path[i] = "/" /\ \A j \in (i + 1)..Len(path) : path[j] # "/"
         IN SubSeq(path, last + 1, Len(path))
    ELSE path

\* Lines 242-250: the entry made of an item of the recursive tree.
FromTreeItem(item, own, rep, branch) ==
    [name |-> IF LastSegment(item.path) # <<>> THEN LastSegment(item.path) ELSE item.path,
     path |-> item.path,
     type |-> IF item.type = "blob" THEN "file"
              ELSE IF item.type = "tree" THEN "dir" ELSE "symlink",
     size |-> item.size,
     sha |-> item.sha,
     download_url |-> IF item.type = "blob"
                      THEN Some(RawUrl(own, rep, branch, encodeURIComponent(item.path)))
                      ELSE None,
     content |-> None,
     error |-> None]

\* Lines 256-264: the entry made of an item of the top-level listing.
FromContentsItem(item) ==
    [name |-> item.name,
     path |-> item.path,
     type |-> item.type,
     size |-> item.size,
     sha |-> item.sha,
     download_url |-> item.download_url,
     content |-> None,
     error |-> None]

\* Lines 241-250: the entries of the body of the recursive tree.
TreeEntries(treeData, own, rep, branch) ==
    [i \in 1..Len(treeData.tree) |-> FromTreeItem(treeData.tree[i], own, rep, branch)]

\* Lines 274-275: the file entries with a path, sorted by tier.
SelectCandidates(all) ==
    SortByPriority(SelectSeq(all, LAMBDA f : f.type = "file" /\ Len(f.path) > 0))

TreeResponses ==
    {Ok([truncated |-> Remote.truncated, tree |-> Remote.tree]),
     Malformed, Status(404), Status(500), Throw}

\* Mutant: a failed tree request is an error at once.
TreeBranch_noFallback(resp) ==
    IF resp.kind = "ok" THEN "entries" ELSE "error"

\* Mutant: a truncated tree is given up for the top-level listing.
TreeBranch_truncatedFallsBack(resp) ==
    IF resp.kind = "ok" /\ ~resp.body.truncated THEN "entries"
    ELSE IF resp.kind \in {"ok", "status"} THEN "fallback"
    ELSE "error"

\* Lines 234-272: what the tool does with the answer to the tree request:
\* map its entries, fall back to the top-level listing, or return an error
\* (the catch).  The truncated flag of the body is only logged.
TreeBranch(resp) ==
    IF resp.kind = "ok" THEN "entries"
    ELSE IF resp.kind = "status" THEN "fallback"
    ELSE "error"

\* Lines 235-252 and 269-278: the recursive tree arrives.
TreeResponse ==
    /\ pc = "FetchingTree"
    /\ \E resp \in TreeResponses :
         /\ treeOutcome' = resp.kind
         /\ IF TreeBranch(resp) = "entries"
            THEN /\ allFilesFromTree' = TreeEntries(resp.body, owner, repo, defaultBranch)
                 /\ filesOnly' = SelectCandidates(allFilesFromTree')
                 /\ pc' = "SelectingContent"
                 /\ UNCHANGED <<requests, result>>
            ELSE IF TreeBranch(resp) = "fallback"
            THEN /\ requests' = Append(requests, Request("contents", None))
                 /\ pc' = "FetchingTreeFallback"
                 /\ UNCHANGED <<allFilesFromTree, filesOnly, result>>
            ELSE /\ result' = Some(ErrorResult(Message(
                        "Exception fetching repository tree structure", 0, 0)))
                 /\ pc' = "Error"
                 /\ UNCHANGED <<allFilesFromTree, filesOnly, requests>>
    /\ UNCHANGED <<input, owner, repo, repoDetails, defaultBranch, cursor, repoContents,
                   fetchedContentCount, failures, attempts, countWhenReached,
                   contributorsOutcome, contributorsList>>
    /\ UNCHANGED <<classifierVars, contentVars, flowVars, loopVars, pageVars>>

ContentsResponses == {Ok(Remote.contents), Malformed, Status(404), Status(500), Throw}

\* Lines 253-278: the top-level listing arrives.
ContentsResponse ==
    /\ pc = "FetchingTreeFallback"
    /\ \E resp \in ContentsResponses :
         IF resp.kind = "ok"
         THEN /\ allFilesFromTree' =
                     [i \in 1..Len(resp.body) |-> FromContentsItem(resp.body[i])]
              /\ filesOnly' = SelectCandidates(allFilesFromTree')
              /\ pc' = "SelectingContent"
              /\ UNCHANGED result
         ELSE IF resp.kind = "status"
         THEN /\ result' = Some(ErrorResult(Message(
                     "Failed to fetch repository contents.", resp.status, 0)))
              /\ pc' = "Error"
              /\ UNCHANGED <<allFilesFromTree, filesOnly>>
         ELSE /\ result' = Some(ErrorResult(Message(
                     "Exception fetching repository tree structure", 0, 0)))
              /\ pc' = "Error"
              /\ UNCHANGED <<allFilesFromTree, filesOnly>>
    /\ UNCHANGED <<input, owner, repo, requests, repoDetails, defaultBranch, treeOutcome,
                   cursor, repoContents, fetchedContentCount, failures, attempts,
                   countWhenReached, contributorsOutcome, contributorsList>>
    /\ UNCHANGED <<classifierVars, contentVars, flowVars, loopVars, pageVars>>

\* REGEX.test(file.name) in the selection loop
Test(re, s) == RegExpTest(re, s, LastIndexInit).matched

\* Line 282
isPriorityFile(file) ==
    \/ Test(README_FILES_REGEX, file.name)
    \/ Test(MANIFEST_FILES_REGEX, file.name)
    \/ Test(LICENSE_FILES_REGEX, file.name)

\* Mutant: the negation of isPriorityFile is lost.
TooLargeToFetch_negationLost(file) ==
    /\ IsSome(file.size)
    /\ Val(file.size) # 0
    /\ Val(file.size) > MAX_FILE_CONTENT_LENGTH * 3
    /\ isPriorityFile(file)

\* Line 283: file.size && file.size > MAX_FILE_CONTENT_LENGTH * 3 && !isPriorityFile
TooLargeToFetch(file) ==
    /\ IsSome(file.size)
    /\ Val(file.size) # 0
    /\ Val(file.size) > MAX_FILE_CONTENT_LENGTH * 3
    /\ ~isPriorityFile(file)

\* Mutant: once the limit is reached only README, manifest and license
\* files keep an entry.
KeptOverLimit_priorityOnly(file) ==
    \/ Test(README_FILES_REGEX, file.name)
    \/ Test(MANIFEST_FILES_REGEX, file.name)
    \/ Test(LICENSE_FILES_REGEX, file.name)

\* Mutant: once the limit is reached every file keeps an entry.
KeptOverLimit_all(file) == TRUE

\* Line 295: the files that keep an entry once the limit is reached
KeptOverLimit(file) ==
    \/ Test(README_FILES_REGEX, file.name)
    \/ Test(MANIFEST_FILES_REGEX, file.name)
    \/ Test(LICENSE_FILES_REGEX, file.name)
    \/ \E ext \in SOURCE_FILE_EXTENSIONS : endsWith(file.path, ext)

\* What the raw host can answer for a file: its text, or a failure while the
\* run has not used up the failures of the model.
ContentResponses(file) ==
    {Ok(RemoteText(Remote, file.path))}
    \cup (IF failures < MaxFetchFailures \/ Remote = SmallRepo
          THEN {Status(404), Status(500), Throw} ELSE {})

\* Mutant: the budget test always passes.
WithinBudget_always == TRUE

\* Line 281: if (fetchedContentCount < MAX_FILES_FOR_CONTENT_FETCH)
WithinBudget == fetchedContentCount < MAX_FILES_FOR_CONTENT_FETCH

\* Mutant: every attempted fetch is counted.
Counted_everyAttempt(out) == TRUE

\* Line 290: if (content && !error)
Counted(out) == TruthyText(out.content) /\ ~IsSome(out.error)

\* Lines 280-302: one iteration of the selection loop.
SelectFile ==
    /\ pc = "SelectingContent"
    /\ cursor <= Len(filesOnly)
    /\ LET file == filesOnly[cursor]
       IN IF WithinBudget
          THEN IF TooLargeToFetch(file)
               THEN /\ repoContents' = Append(repoContents,
                          [file EXCEPT !.content = None,
                                       !.error = Some(TooLargeError(Val(file.size)))])
                    /\ UNCHANGED <<fetchedContentCount, requests, failures, attempts>>
               ELSE \E resp \in ContentResponses(file) :
                      LET out == fetchFileContent(file, owner, repo, defaultBranch, resp)
                      IN /\ repoContents' = Append(repoContents,
                               [file EXCEPT !.content = out.content,
                                            !.error = IF IsSome(out.error)
                                                      THEN out.error ELSE file.error])
                         /\ fetchedContentCount' =
                               IF Counted(out)
                               THEN fetchedContentCount + 1
                               ELSE fetchedContentCount
                         /\ requests' = IF IsSome(out.requested)
                                        THEN Append(requests, Request("raw", out.requested))
                                        ELSE requests
                         /\ failures' = IF IsSome(out.requested) /\ resp.kind # "ok"
                                        THEN failures + 1 ELSE failures
                         /\ attempts' = Append(attempts, file.path)
          ELSE /\ repoContents' =
                     IF KeptOverLimit(file)
                     THEN Append(repoContents,
                             [file EXCEPT !.content = None,
                                          !.error = IF IsSome(file.error)
                                                    THEN file.error ELSE Some(LimitError)])
                     ELSE repoContents
               /\ UNCHANGED <<fetchedContentCount, requests, failures, attempts>>
    /\ cursor' = cursor + 1
    /\ countWhenReached' = Append(countWhenReached, fetchedContentCount)
    /\ UNCHANGED <<pc, input, owner, repo, repoDetails, defaultBranch, treeOutcome,
                   allFilesFromTree, filesOnly, contributorsOutcome, contributorsList, result>>
    /\ UNCHANGED <<classifierVars, contentVars, flowVars, loopVars, pageVars>>

\* Mutant: the iteration over filesOnly never reports its end.
Exhausted_never == FALSE

\* Line 280: for (const file of filesOnly) has gone through every candidate
Exhausted == cursor > Len(filesOnly)

\* Lines 304-308: the loop is over; sort the output, request the contributors.
FinishSelection ==
    /\ pc = "SelectingContent"
    /\ Exhausted
    /\ repoContents' = SortByPriority(repoContents)
    /\ requests' = Append(requests, Request("contributors", None))
    /\ pc' = "FetchingContributors"
    /\ UNCHANGED <<input, owner, repo, repoDetails, defaultBranch, treeOutcome,
                   allFilesFromTree, filesOnly, cursor, fetchedContentCount, failures,
                   attempts, countWhenReached, contributorsOutcome, contributorsList, result>>
    /\ UNCHANGED <<classifierVars, contentVars, flowVars, loopVars, pageVars>>

\* JavaScript truthiness of a string field that may be missing
TruthyString(o) == IsSome(o) /\ Val(o) # ""

\* Mutant: the bots are not filtered out.
SelectContributors_botsKept(data) ==
    LET kept == SelectSeq(data, LAMBDA c : /\ TruthyString(c.login)
                                           /\ TruthyString(c.avatar_url)
                                           /\ TruthyString(c.html_url))
        mapped == [i \in 1..Len(kept) |->
                     [login |-> kept[i].login, avatar_url |-> kept[i].avatar_url,
                      html_url |-> kept[i].html_url, contributions |-> kept[i].contributions]]
    IN SubSeq(mapped, 1, IF Len(mapped) < MAX_CONTRIBUTORS_TO_FETCH
                         THEN Len(mapped) ELSE MAX_CONTRIBUTORS_TO_FETCH)

\* Lines 312-320: filter, map and slice of the contributors array.
SelectContributors(data) ==
    LET kept == SelectSeq(data, LAMBDA c : /\ c.type # Some("Bot")
                                           /\ TruthyString(c.login)
                                           /\ TruthyString(c.avatar_url)
                                           /\ TruthyString(c.html_url))
        mapped == [i \in 1..Len(kept) |->
                     [login |-> kept[i].login, avatar_url |-> kept[i].avatar_url,
                      html_url |-> kept[i].html_url, contributions |-> kept[i].contributions]]
    IN SubSeq(mapped, 1, IF Len(mapped) < MAX_CONTRIBUTORS_TO_FETCH
                         THEN Len(mapped) ELSE MAX_CONTRIBUTORS_TO_FETCH)

ContributorsResponses ==
    {Ok(Remote.contributors), NotAnArray, Malformed, Status(403), Status(500), Throw}

\* Lines 306-327: contributorsList after the answer to the contributors request.
ContributorsOf(resp) ==
    IF resp.kind = "ok" THEN Some(SelectContributors(resp.body)) ELSE contributorsList

\* Mutant: a run that selected no file returns an error.
RepoInfo_errorOnEmpty(contributors) ==
    IF Len(repoContents) = 0
    THEN ErrorResult(Message("No files found in repository", 0, 0))
    ELSE [error |-> None,
          repoName |-> Some(Val(repoDetails).name),
          repoContents |-> Some(repoContents),
          contributors |-> contributors,
          toolInput |-> input.repoUrl]

\* Mutant: a run without contributors returns an error.
RepoInfo_fatal(contributors) ==
    IF contributors = None
    THEN ErrorResult(Message("Failed to fetch contributors", 0, 0))
    ELSE [error |-> None,
          repoName |-> Some(Val(repoDetails).name),
          repoContents |-> IF Len(repoContents) > 0 THEN Some(repoContents) ELSE None,
          contributors |-> contributors,
          toolInput |-> input.repoUrl]

\* Lines 329-336: the RepoInfo returned after the contributors request.
RepoInfo(contributors) ==
    [error |-> None,
     repoName |-> Some(Val(repoDetails).name),
     repoContents |-> IF Len(repoContents) > 0 THEN Some(repoContents) ELSE None,
     contributors |-> contributors,
     toolInput |-> input.repoUrl]

\* Lines 308-336: the contributors arrive; return the RepoInfo.
ContributorsResponse ==
    /\ pc = "FetchingContributors"
    /\ \E resp \in ContributorsResponses :
         /\ contributorsOutcome' = resp.kind
         /\ contributorsList' = ContributorsOf(resp)
         /\ result' = Some(RepoInfo(contributorsList'))
    /\ pc' = "Done"
    /\ UNCHANGED <<input, owner, repo, requests, repoDetails, defaultBranch, treeOutcome,
                   allFilesFromTree, filesOnly, cursor, repoContents, fetchedContentCount,
                   failures, attempts, countWhenReached>>
    /\ UNCHANGED <<classifierVars, contentVars, flowVars, loopVars, pageVars>>

Next ==
    \/ ParseUrl
    \/ DetailsResponse
    \/ TreeResponse
    \/ ContentsResponse
    \/ SelectFile
    \/ FinishSelection
    \/ ContributorsResponse

Spec == Init /\ [][Next]_vars

(***************************************************************************)
(* Scenario runs: fetchRepoInfoTool on https://github.com/acme/widget      *)
(* serving the scenario repositories.                                      *)
(***************************************************************************)
InitScenario ==
    /\ pc = "Parsing"
    /\ \E r \in DOMAIN ScenarioRemotes :
          input = [repoUrl |-> Url(TRUE, <<"/", "a", "c", "m", "e", "/", "w", "i", "d", "g", "e", "t">>), remote |-> Len(Remotes) + r]
    /\ owner = <<>>
    /\ repo = <<>>
    /\ requests = <<>>
    /\ repoDetails = None
    /\ defaultBranch = <<>>
    /\ treeOutcome = "none"
    /\ allFilesFromTree = <<>>
    /\ filesOnly = <<>>
    /\ cursor = 1
    /\ repoContents = <<>>
    /\ fetchedContentCount = 0
    /\ failures = 0
    /\ attempts = <<>>
    /\ countWhenReached = <<>>
    /\ contributorsOutcome = "none"
    /\ contributorsList = None
    /\ result = None
    /\ inFlight = {}
    /\ ClassifierIdle
    /\ ContentIdle
    /\ FlowIdle
    /\ PageIdle

SpecScenario == InitScenario /\ [][Next]_vars

(***************************************************************************)
(* The selection loop step by step: an iteration issues the content        *)
(* request of line 141 and the run stays at the await of line 285 until    *)
(* the request settles.                                                    *)
(***************************************************************************)
\* Mutant: the call of fetchFileContent is not awaited.
Awaited_missing == TRUE

\* Line 285: await fetchFileContent(...); the loop goes on once the call has settled
Awaited == inFlight = {}

\* the runs: https://github.com/acme/widget served by each repository
LoopScenarios ==
    {[repoUrl |-> Url(TRUE, <<"/", "a", "c", "m", "e", "/", "w", "i", "d", "g", "e", "t">>), remote |-> r] : r \in DOMAIN Remotes}

InitLoop ==
    /\ pc = "Parsing"
    /\ input \in LoopScenarios
    /\ owner = <<>>
    /\ repo = <<>>
    /\ requests = <<>>
    /\ repoDetails = None
    /\ defaultBranch = <<>>
    /\ treeOutcome = "none"
    /\ allFilesFromTree = <<>>
    /\ filesOnly = <<>>
    /\ cursor = 1
    /\ repoContents = <<>>
    /\ fetchedContentCount = 0
    /\ failures = 0
    /\ attempts = <<>>
    /\ countWhenReached = <<>>
    /\ contributorsOutcome = "none"
    /\ contributorsList = None
    /\ result = None
    /\ inFlight = {}
    /\ ClassifierIdle
    /\ ContentIdle
    /\ FlowIdle
    /\ PageIdle

\* Lines 280-285 and 294-300: an iteration starts on the next candidate; it
\* records the file without a request, or issues the content request.
BeginIteration ==
    /\ pc = "SelectingContent"
    /\ cursor <= Len(filesOnly)
    /\ Awaited
    /\ LET file == filesOnly[cursor]
           early == fetchFileContent(file, owner, repo, defaultBranch, Throw)
       IN IF WithinBudget
          THEN IF TooLargeToFetch(file)
               THEN /\ repoContents' = Append(repoContents,
                          [file EXCEPT !.content = None,
                                       !.error = Some(TooLargeError(Val(file.size)))])
                    /\ UNCHANGED <<requests, attempts, inFlight>>
               ELSE IF ~IsSome(early.requested)
               THEN /\ repoContents' = Append(repoContents,
                          [file EXCEPT !.content = early.content,
                                       !.error = IF IsSome(early.error)
                                                 THEN early.error ELSE file.error])
                    /\ attempts' = Append(attempts, file.path)
                    /\ UNCHANGED <<requests, inFlight>>
               ELSE /\ requests' = Append(requests, Request("raw", early.requested))
                    /\ attempts' = Append(attempts, file.path)
                    /\ inFlight' = inFlight \cup {cursor}
                    /\ UNCHANGED repoContents
          ELSE /\ repoContents' =
                     IF KeptOverLimit(file)
                     THEN Append(repoContents,
                             [file EXCEPT !.content = None,
                                          !.error = IF IsSome(file.error)
                                                    THEN file.error ELSE Some(LimitError)])
                     ELSE repoContents
               /\ UNCHANGED <<requests, attempts, inFlight>>
    /\ cursor' = cursor + 1
    /\ countWhenReached' = Append(countWhenReached, fetchedContentCount)
    /\ UNCHANGED <<pc, input, owner, repo, repoDetails, defaultBranch, treeOutcome,
                   allFilesFromTree, filesOnly, fetchedContentCount, failures,
                   contributorsOutcome, contributorsList, result>>
    /\ UNCHANGED <<classifierVars, contentVars, flowVars, pageVars>>

\* Lines 141-157 and 286-292: a content request settles; record the outcome.
ContentArrives ==
    /\ pc = "SelectingContent"
    /\ \E k \in inFlight :
         \E resp \in ContentResponses(filesOnly[k]) :
            LET file == filesOnly[k]
                out == fetchFileContent(file, owner, repo, defaultBranch, resp)
            IN /\ repoContents' = Append(repoContents,
                     [file EXCEPT !.content = out.content,
                                  !.error = IF IsSome(out.error)
                                            THEN out.error ELSE file.error])
               /\ fetchedContentCount' =
                     IF Counted(out)
                     THEN fetchedContentCount + 1
                     ELSE fetchedContentCount
               /\ failures' = IF resp.kind # "ok" THEN failures + 1 ELSE failures
               /\ inFlight' = inFlight \ {k}
    /\ UNCHANGED <<pc, input, owner, repo, requests, repoDetails, defaultBranch, treeOutcome,
                   allFilesFromTree, filesOnly, cursor, attempts, countWhenReached,
                   contributorsOutcome, contributorsList, result>>
    /\ UNCHANGED <<classifierVars, contentVars, flowVars, pageVars>>

\* Line 304 on: the loop is over once the last awaited call has settled.
EndLoop ==
    /\ Awaited
    /\ FinishSelection

NextLoop ==
    \/ ParseUrl
    \/ DetailsResponse
    \/ TreeResponse
    \/ ContentsResponse
    \/ BeginIteration
    \/ ContentArrives
    \/ EndLoop
    \/ ContributorsResponse

SpecLoop == InitLoop /\ [][NextLoop]_vars

\* the runs checked for termination: the small repository, whose every fetch
\* may fail, and the repository of empty files
FairScenarios == {s \in LoopScenarios : AllRemotes[s.remote] \in {SmallRepo, EmptyFilesRepo}}

\* Every request of a run eventually resolves or throws, and the run goes on
\* from each await: a step that is possible is eventually taken.
InitLoopFair ==
    /\ InitLoop
    /\ input \in FairScenarios

SpecLoopFair == InitLoopFair /\ [][NextLoop]_vars /\ WF_vars(NextLoop)


(***************************************************************************)
(* generateReadmeFlow (src/ai/flows/generate-readme.ts): the flow awaits   *)
(* fetchRepoInfoTool, then the generation prompt, then one translateReadme *)
(* call per target language.                                               *)
(***************************************************************************)
Spanish == <<"S", "p", "a", "n", "i", "s", "h">>
Klingon == <<"K", "l", "i", "n", "g", "o", "n">>

\* input.targetLanguages: absent, empty, or a list of languages
TargetLanguageChoices ==
    {None, Some(<<>>), Some(<<Spanish>>), Some(<<Spanish, Klingon>>),
     Some(<<Klingon, <<"F", "r", "e", "n", "c", "h">>, Spanish>>)}

\* Line 184: languageMap
languageMap ==
    <<<<<<"S", "p", "a", "n", "i", "s", "h">>, <<"e", "s">>>>, <<<<"F", "r", "e", "n", "c", "h">>, <<"f", "r">>>>, <<<<"G", "e", "r", "m", "a", "n">>, <<"d", "e">>>>, <<<<"J", "a", "p", "a", "n", "e", "s", "e">>, <<"j", "a">>>>,
      <<<<"C", "h", "i", "n", "e", "s", "e", " ", "(", "S", "i", "m", "p", "l", "i", "f", "i", "e", "d", ")">>, <<"z", "h">>>>, <<<<"P", "o", "r", "t", "u", "g", "u", "e", "s", "e">>, <<"p", "t">>>>, <<<<"R", "u", "s", "s", "i", "a", "n">>, <<"r", "u">>>>,
      <<<<"I", "t", "a", "l", "i", "a", "n">>, <<"i", "t">>>>, <<<<"K", "o", "r", "e", "a", "n">>, <<"k", "o">>>>>>

\* Line 196: languageMap[lang] || lang.substring(0, 2).toLowerCase()
langCode(lang) ==
    IF \E i \in DOMAIN languageMap : languageMap[i][1] = lang
    THEN languageMap[CHOOSE i \in DOMAIN languageMap : languageMap[i][1] = lang][2]
    ELSE toLowerCase(SubSeq(lang, 1, IF Len(lang) < 2 THEN Len(lang) ELSE 2))

\* Line 173
footer == "\n\n---\nGenerated by [ReadMeMagic](https://github.com/slammers001/readme-ai-generator)"

\* a ReadmeObject; content is the sequence of the pieces concatenated into it
ReadmeObject(language, fileName, content) ==
    [language |-> language, fileName |-> fileName, content |-> content]

\* Mutant: the flow never takes the early exit.
ToolFailed_ignored(repoInfo) == FALSE

\* Line 134: if (repoInfo.error)
ToolFailed(repoInfo) == IsSome(repoInfo.error) /\ Val(repoInfo.error).kind # ""

\* Lines 135-141: the single entry of the early exit
ErrorReadme(error) ==
    ReadmeObject(<<"E", "r", "r", "o", "r">>, <<"E", "R", "R", "O", "R", ".", "m", "d">>,
                 <<"## Unable to Analyze Repository\n\nI was unable to fetch repository details. Error: ",
                   error,
                   ".\n\nPlease check the URL and that the repository is public (or that a valid token is provided for a private repo).">>)

\* Lines 175-179
EnglishReadme(content) == ReadmeObject(<<"E", "n", "g", "l", "i", "s", "h">>, <<"R", "E", "A", "D", "M", "E", ".", "m", "d">>, <<content, footer>>)

\* Lines 197-201
TranslatedReadme(lang, translatedContent) ==
    ReadmeObject(lang, <<"R", "E", "A", "D", "M", "E", ".">> \o langCode(lang) \o <<".", "m", "d">>, <<translatedContent, footer>>)

\* what the generation prompt resolves to: no output, an empty readmeContent,
\* a readmeContent, or a rejection
PromptOutcomes ==
    {[throws |-> TRUE, output |-> None], [throws |-> FALSE, output |-> None],
     [throws |-> FALSE, output |-> Some("")], [throws |-> FALSE, output |-> Some("# widget")]}

\* what one translateReadme call does: translatedContent, an empty result, a rejection
TranslationOutcomes == {"content", "empty", "throws"}

\* the text translateReadme produced for a language
Translation(content, lang) == [translationOf |-> content, targetLanguage |-> lang]

\* Lines 157-163: the message of the Error the flow throws
GenerationFailed(repoInfo) ==
    <<"README generation failed to produce content. ",
      IF ~IsSome(repoInfo.repoContents) \/ Len(Val(repoInfo.repoContents)) = 0
      THEN "No files or content could be retrieved from the repository, or no relevant files were selected for content fetching. "
      ELSE "The AI model might have encountered an issue, the repository data could not be processed effectively, or the response was empty. ",
      "Ensure the repository URL is correct and the repository is publicly accessible (or a valid token is provided for private repos). If it is, try a different repository or check back later.">>

\* a translation promise: not settled, or settled with a ReadmeObject or with null
Pending == [settled |-> FALSE, value |-> None]
Settled(value) == [settled |-> TRUE, value |-> value]

\* Mutant: the results are cut at the first translation that failed.
RECURSIVE NonNull_untilFailure(_)
NonNull_untilFailure(results) ==
    IF results = <<>> \/ ~IsSome(Head(results).value) THEN <<>>
    ELSE <<Val(Head(results).value)>> \o NonNull_untilFailure(Tail(results))

\* Line 210: .filter(r => r !== null)
RECURSIVE NonNull(_)
NonNull(results) ==
    IF results = <<>> THEN <<>>
    ELSE (IF IsSome(Head(results).value) THEN <<Val(Head(results).value)>> ELSE <<>>)
         \o NonNull(Tail(results))

\* the runs of the flow start where the tool starts
FlowScenarios ==
    {s \in Scenarios : /\ s.remote = 1
                       /\ s.repoUrl \in BadUrls \cup {Url(TRUE, <<"/", "a", "c", "m", "e", "/", "w", "i", "d", "g", "e", "t">>)}}

InitFlow ==
    /\ pc = "Parsing"
    /\ input \in FlowScenarios
    /\ owner = <<>>
    /\ repo = <<>>
    /\ requests = <<>>
    /\ repoDetails = None
    /\ defaultBranch = <<>>
    /\ treeOutcome = "none"
    /\ allFilesFromTree = <<>>
    /\ filesOnly = <<>>
    /\ cursor = 1
    /\ repoContents = <<>>
    /\ fetchedContentCount = 0
    /\ failures = 0
    /\ attempts = <<>>
    /\ countWhenReached = <<>>
    /\ contributorsOutcome = "none"
    /\ contributorsList = None
    /\ result = None
    /\ inFlight = {}
    /\ ClassifierIdle
    /\ ContentIdle
    /\ fpc = "AwaitingTool"
    /\ flowInput \in {[targetLanguages |-> t] : t \in TargetLanguageChoices}
    /\ promptCalls = 0
    /\ originalReadmeContent = None
    /\ translateCalls = <<>>
    /\ translationResults = <<>>
    /\ flowOutput = None
    /\ flowError = None
    /\ PageIdle

\* Lines 128-152: the tool has returned; exit early on its error, or invoke the prompt.
ToolReturned ==
    /\ fpc = "AwaitingTool"
    /\ IsSome(result)
    /\ IF ToolFailed(Val(result))
       THEN /\ flowOutput' = Some([readmes |-> <<ErrorReadme(Val(Val(result).error))>>,
                                   debugInfo |-> Val(result)])
            /\ fpc' = "Returned"
            /\ UNCHANGED promptCalls
       ELSE /\ promptCalls' = promptCalls + 1
            /\ fpc' = "Prompting"
            /\ UNCHANGED flowOutput
    /\ UNCHANGED <<flowInput, originalReadmeContent, translateCalls, translationResults, flowError>>
    /\ UNCHANGED <<toolVars, classifierVars, contentVars, loopVars, pageVars>>

\* Lines 154-214: the prompt has resolved; throw on a missing or empty output,
\* return the English README, or start one translation per target language.
PromptResponse ==
    /\ fpc = "Prompting"
    /\ \E out \in PromptOutcomes :
         IF out.throws
         THEN /\ fpc' = "Thrown"
              /\ flowError' = Some(<<"prompt rejected">>)
              /\ UNCHANGED <<originalReadmeContent, translateCalls, translationResults, flowOutput>>
         ELSE IF ~(IsSome(out.output) /\ Val(out.output) # "")
         THEN /\ fpc' = "Thrown"
              /\ flowError' = Some(GenerationFailed(Val(result)))
              /\ UNCHANGED <<originalReadmeContent, translateCalls, translationResults, flowOutput>>
         ELSE /\ originalReadmeContent' = out.output
              /\ IF IsSome(flowInput.targetLanguages) /\ Len(Val(flowInput.targetLanguages)) > 0
                 THEN /\ translateCalls' = Val(flowInput.targetLanguages)
                      /\ translationResults' = [i \in DOMAIN Val(flowInput.targetLanguages) |-> Pending]
                      /\ fpc' = "Translating"
                      /\ UNCHANGED flowOutput
                 ELSE /\ flowOutput' = Some([readmes |-> <<EnglishReadme(Val(out.output))>>,
                                             debugInfo |-> Val(result)])
                      /\ fpc' = "Returned"
                      /\ UNCHANGED <<translateCalls, translationResults>>
              /\ UNCHANGED flowError
    /\ UNCHANGED <<flowInput, promptCalls>>
    /\ UNCHANGED <<toolVars, classifierVars, contentVars, loopVars, pageVars>>

\* Lines 187-208: one translateReadme call settles, in any order among the pending ones.
TranslationSettles ==
    /\ fpc = "Translating"
    /\ \E i \in DOMAIN translationResults :
         /\ ~translationResults[i].settled
         /\ \E outcome \in TranslationOutcomes :
              translationResults' =
                  [translationResults EXCEPT ![i] =
                      Settled(IF outcome = "content"
                              THEN Some(TranslatedReadme(translateCalls[i],
                                            Translation(Val(originalReadmeContent), translateCalls[i])))
                              ELSE None)]
    /\ UNCHANGED <<fpc, flowInput, promptCalls, originalReadmeContent, translateCalls, flowOutput,
                   flowError>>
    /\ UNCHANGED <<toolVars, classifierVars, contentVars, loopVars, pageVars>>

\* Lines 210-214: every translation has settled; return the README set.
FlowReturns ==
    /\ fpc = "Translating"
    /\ \A i \in DOMAIN translationResults : translationResults[i].settled
    /\ flowOutput' = Some([readmes |-> <<EnglishReadme(Val(originalReadmeContent))>>
                                          \o NonNull(translationResults),
                           debugInfo |-> Val(result)])
    /\ fpc' = "Returned"
    /\ UNCHANGED <<flowInput, promptCalls, originalReadmeContent, translateCalls,
                   translationResults, flowError>>
    /\ UNCHANGED <<toolVars, classifierVars, contentVars, loopVars, pageVars>>

NextFlow ==
    \/ Next
    \/ ToolReturned
    \/ PromptResponse
    \/ TranslationSettles
    \/ FlowReturns

SpecFlow == InitFlow /\ [][NextFlow]_vars



(***************************************************************************)
(* Classifier runs: getFilePriority called again and again on one file     *)
(* name and path, the other fields of the entry changing between calls,    *)
(* and on other files in between, all on the RegExp objects of the module. *)
(***************************************************************************)
ClassifierNames ==
    {<<"R", "E", "A", "D", "M", "E">>, <<"r", "e", "a", "d", "m", "e", ".", "m", "d">>, <<"R", "e", "a", "d", "M", "e", ".", "M", "D">>, <<"R", "E", "A", "D", "M", "E", ".", "m", "a", "r", "k", "d", "o", "w", "n">>, <<"R", "e", "a", "d", "m", "e", ".", "r", "s", "t">>, <<"R", "E", "A", "D", "M", "E", ".", "T", "X", "T">>,
     <<"R", "E", "A", "D", "M", "E", ".", "m", "d", "x">>, <<"R", "E", "A", "D", "M", "E", "S">>, <<"X", "R", "E", "A", "D", "M", "E", ".", "m", "d">>, <<"L", "I", "C", "E", "N", "S", "E">>, <<"c", "o", "p", "y", "i", "n", "g", ".", "t", "x", "t">>, <<"p", "a", "c", "k", "a", "g", "e", ".", "j", "s", "o", "n">>,
     <<"M", "a", "k", "e", "f", "i", "l", "e">>, <<"d", "o", "c", "k", "e", "r", "-", "c", "o", "m", "p", "o", "s", "e", ".", "y", "m", "l">>, <<"i", "n", "d", "e", "x", ".", "t", "s">>, <<"u", "t", "i", "l", ".", "P", "Y">>, <<"g", "u", "i", "d", "e", ".", "m", "d">>, <<"n", "o", "t", "e", "s", ".", "b", "i", "n">>}

ClassifierPaths ==
    {<<"R", "E", "A", "D", "M", "E", ".", "m", "d">>, <<"d", "o", "c", "s", "/", "R", "E", "A", "D", "M", "E", ".", "m", "d">>, <<"s", "r", "c", "/", "R", "E", "A", "D", "M", "E">>, <<"s", "r", "c", "/", "i", "n", "d", "e", "x", ".", "t", "s">>, <<"D", "O", "C", "S", "/", "g", "u", "i", "d", "e", ".", "P", "Y">>,
     <<"t", "e", "s", "t", "/", "a", ".", "t", "s">>, <<"t", "e", "s", "t", "s", "/", "m", "a", "i", "n", ".", "t", "s">>, <<"d", "o", "c", "s", "/", "a", "p", "p", ".", "j", "s">>, <<"l", "i", "b", "/", "x", ".", "b", "i", "n">>, <<"a", ".", "t", "s">>, <<"d", "o", "c", "s", "/", "a", ".", "m", "d">>,
     <<"e", "x", "a", "m", "p", "l", "e", "s", "/", "r", "u", "n", ".", "s", "h">>, <<"S", "r", "c", "/", "U", "t", "i", "l", ".", "T", "s">>, <<"s", "p", "e", "c", "/", "u", "t", "i", "l", ".", "r", "b">>}

\* an entry of the candidate list with this name and path
Entry(name, path) ==
    [name |-> name, path |-> path, type |-> "file", size |-> Some(10), sha |-> Some("sha"),
     download_url |-> None, content |-> None, error |-> None]

OtherFiles ==
    {Entry(<<"R", "E", "A", "D", "M", "E", ".", "m", "d">>, <<"R", "E", "A", "D", "M", "E", ".", "m", "d">>), Entry(<<"L", "I", "C", "E", "N", "S", "E">>, <<"L", "I", "C", "E", "N", "S", "E">>),
     Entry(<<"g", "o", ".", "m", "o", "d">>, <<"g", "o", ".", "m", "o", "d">>), Entry(<<"x", ".", "p", "y">>, <<"d", "o", "c", "s", "/", "x", ".", "p", "y">>), Entry(<<"y", ".", "r", "b">>, <<"s", "p", "e", "c", "/", "y", ".", "r", "b">>)}

InitPriority ==
    /\ ToolIdle
    /\ ContentIdle
    /\ FlowIdle
    /\ PageIdle
    /\ lastIndex = LastIndexInit
    /\ \E n \in ClassifierNames, p \in ClassifierPaths : cFile = Some(Entry(n, p))
    /\ cFirst = None
    /\ cLast = None
    /\ cCalls = 0

\* getFilePriority(cFile), the fields other than name and path set anew
Classify ==
    /\ cCalls < MaxCalls
    /\ \E size \in {None, Some(70000)}, content \in {None, Some(Repeat("x", 5))},
          error \in {None, Some(LimitError)} :
         LET file == [Val(cFile) EXCEPT !.size = size, !.content = content, !.error = error]
             r == getFilePriority(file, lastIndex)
         IN /\ cFile' = Some(file)
            /\ cLast' = Some(r.tier)
            /\ cFirst' = IF IsSome(cFirst) THEN cFirst ELSE Some(r.tier)
            /\ lastIndex' = r.lastIndex
    /\ cCalls' = cCalls + 1
    /\ UNCHANGED <<toolVars, contentVars, flowVars, loopVars, pageVars>>

\* getFilePriority(other) for another file
ClassifyOther ==
    /\ cCalls < MaxCalls
    /\ \E other \in OtherFiles : lastIndex' = getFilePriority(other, lastIndex).lastIndex
    /\ cCalls' = cCalls + 1
    /\ UNCHANGED <<cFile, cFirst, cLast>>
    /\ UNCHANGED <<toolVars, contentVars, flowVars, loopVars, pageVars>>

NextPriority ==
    \/ Classify
    \/ ClassifyOther

SpecPriority == InitPriority /\ [][NextPriority]_vars

(***************************************************************************)
(* Content runs: one call of fetchFileContent.                             *)
(***************************************************************************)
\* fetched texts around the cap: n times a, then m times b
SampleTexts ==
    {TextConcat(Repeat("a", n), Repeat("b", m)) :
        n \in {0, 1, MAX_FILE_CONTENT_LENGTH - 1, MAX_FILE_CONTENT_LENGTH,
               MAX_FILE_CONTENT_LENGTH + 1, 3 * MAX_FILE_CONTENT_LENGTH},
        m \in {0, 1, 2, MAX_FILE_CONTENT_LENGTH}}

\* entries with a download_url, with only a sha, and with neither
SampleFiles ==
    {[Entry(<<"a", ".", "t", "s">>, <<"s", "r", "c", "/", "a", ".", "t", "s">>) EXCEPT
         !.download_url = Some(RawUrl(Acme, Widget, <<"m", "a", "i", "n">>, <<"s", "r", "c", "%", "2", "F", "a", ".", "t", "s">>))],
     Entry(<<"a", ".", "t", "s">>, <<"s", "r", "c", "/", "a", ".", "t", "s">>),
     [Entry(<<"a", ".", "t", "s">>, <<"s", "r", "c", "/", "a", ".", "t", "s">>) EXCEPT !.sha = None]}

InitContent ==
    /\ ToolIdle
    /\ ClassifierIdle
    /\ FlowIdle
    /\ PageIdle
    /\ \E file \in SampleFiles,
          resp \in {Ok(t) : t \in SampleTexts} \cup {Status(404), Status(500), Throw} :
         fArgs = Some([file |-> file, resp |-> resp])
    /\ fOut = None

FetchContent ==
    /\ fOut = None
    /\ fOut' = Some(fetchFileContent(Val(fArgs).file, Acme, Widget, <<"m", "a", "i", "n">>, Val(fArgs).resp))
    /\ UNCHANGED fArgs
    /\ UNCHANGED <<toolVars, classifierVars, flowVars, loopVars, pageVars>>

NextContent == FetchContent

SpecContent == InitContent /\ [][NextContent]_vars


(***************************************************************************)
(* Properties                                                              *)
(***************************************************************************)
Range(s) == {s[i] : i \in DOMAIN s}
Apis == [i \in DOMAIN requests |-> requests[i].api]
Returned == IsSome(result)
ReturnedError == IsSome(result) /\ IsSome(Val(result).error)

\* an entry that carries fetched content and no error
CarriesContent(e) == IsSome(e.content) /\ ~IsSome(e.error)
ContentEntries(list) == {i \in DOMAIN list : CarriesContent(list[i])}

\* C1: at every point of a run, and in the returned repoContents, at most
\* MAX_FILES_FOR_CONTENT_FETCH entries carry fetched content and no error.
BudgetInvariant ==
    /\ Cardinality(ContentEntries(repoContents)) <= MAX_FILES_FOR_CONTENT_FETCH
    /\ (Returned /\ IsSome(Val(result).repoContents)
          => Cardinality(ContentEntries(Val(Val(result).repoContents)))
                <= MAX_FILES_FOR_CONTENT_FETCH)

\* C2: a run calls fetchFileContent at most MAX_FILES_FOR_CONTENT_FETCH times.
FetchCallsBounded == Len(attempts) <= MAX_FILES_FOR_CONTENT_FETCH

\* the size of the entry exceeds three times the per-file cap, and its name
\* is not a README, license or manifest name
OversizedNonPriority(f) ==
    /\ IsSome(f.size)
    /\ Val(f.size) > 3 * MAX_FILE_CONTENT_LENGTH
    /\ ~isPriorityFile(f)

\* the message contains 'too large'
ContainsTooLarge(message) ==
    message.kind = "File too large to fetch content. Not a priority file."

\* repoContents records the file with a 'too large' error and no content,
\* and fetchFileContent was not called for it
SkippedAsTooLarge(f) ==
    /\ \E i \in DOMAIN repoContents :
          /\ repoContents[i].path = f.path
          /\ IsSome(repoContents[i].error)
          /\ ContainsTooLarge(Val(repoContents[i].error))
    /\ \A i \in DOMAIN repoContents :
          repoContents[i].path = f.path => ~IsSome(repoContents[i].content)
    /\ f.path \notin Range(attempts)

\* C3 as claimed: every oversized non-priority file the loop has passed is
\* recorded as too large, without content and without a fetch, whatever the
\* fetch count was when the loop reached it.
OversizedAlwaysSkipped ==
    \A k \in 1..(cursor - 1) :
        OversizedNonPriority(filesOnly[k]) => SkippedAsTooLarge(filesOnly[k])

\* C3 amended: every oversized non-priority file the loop reached while
\* fetchedContentCount was below MAX_FILES_FOR_CONTENT_FETCH is recorded as
\* too large, without content and without a fetch.
OversizedSkippedWithinBudget ==
    \A k \in 1..(cursor - 1) :
        (/\ OversizedNonPriority(filesOnly[k])
         /\ countWhenReached[k] < MAX_FILES_FOR_CONTENT_FETCH)
            => SkippedAsTooLarge(filesOnly[k])

OversizedSkippedWitness ==
    /\ pc = "Done"
    /\ \E k \in 1..(cursor - 1) :
          /\ OversizedNonPriority(filesOnly[k])
          /\ countWhenReached[k] > 0
          /\ countWhenReached[k] < MAX_FILES_FOR_CONTENT_FETCH
          /\ SkippedAsTooLarge(filesOnly[k])

ContentsRequested == \E i \in DOMAIN requests : requests[i].api = "contents"

\* C4 as claimed: when the recursive tree request failed, by a status or by
\* an exception, an error is returned only after the top-level contents
\* request was issued.
FallbackBeforeTreeError ==
    (ReturnedError /\ treeOutcome \in {"status", "throw"}) => ContentsRequested

\* C4 amended: when the recursive tree request ends with a non-success
\* status the contents request is issued (so before any error is returned);
\* when it throws, or its body cannot be read, the tool returns the error
\* and issues no contents request.
FallbackOnStatusOnly ==
    /\ treeOutcome = "status" => ContentsRequested
    /\ treeOutcome \in {"throw", "malformed"} => (ReturnedError /\ ~ContentsRequested)

FallbackWitness ==
    /\ ReturnedError
    /\ treeOutcome = "status"
    /\ Apis = <<"repos", "git/trees", "contents">>

\* the step a returned error message is from
UrlErrors ==
    {"Invalid repository URL",
     "Invalid GitHub repository URL format. Could not extract owner/repo."}
TreeErrors ==
    {"Exception fetching repository tree structure", "Failed to fetch repository contents."}

\* C5: a result with error set has no repoContents, no contributors and no
\* repoName; the request of the failing step is the last one issued, no
\* content or contributors request is made, and a malformed URL leaves the
\* run without any request.
FatalShortCircuit ==
    ReturnedError =>
        LET r == Val(result)
            kind == Val(r.error).kind
        IN /\ r.repoContents = None
           /\ r.contributors = None
           /\ r.repoName = None
           /\ pc = "Error"
           /\ repoContents = <<>>
           /\ attempts = <<>>
           /\ IF kind \in UrlErrors THEN Apis = <<>>
              ELSE IF kind \in TreeErrors
              THEN Apis \in {<<"repos", "git/trees">>, <<"repos", "git/trees", "contents">>}
              ELSE Apis = <<"repos">>
           /\ (~input.repoUrl.parses \/ Len(SplitPath(input.repoUrl.pathname, <<>>)) < 2)
                 => Apis = <<>>

FatalShortCircuitWitness ==
    /\ ReturnedError
    /\ Val(Val(result).error).kind = "Failed to fetch repository contents."
    /\ Len(requests) = 3

\* C6: once a tree listing succeeded no result carries an error, and the
\* step that receives the answer to the contributors request returns
\* repoName and repoContents as they stood before the answer, whatever the
\* answer is, with contributors absent unless the answer was a 2xx array.
ContributorFailureNonFatal ==
    /\ [](pc \in {"SelectingContent", "FetchingContributors", "Done"} => ~ReturnedError)
    /\ [][pc = "FetchingContributors" =>
            /\ pc' = "Done"
            /\ IsSome(result')
            /\ Val(result').error = None
            /\ Val(result').repoName = Some(Val(repoDetails).name)
            /\ Val(result').repoContents =
                  (IF Len(repoContents) > 0 THEN Some(repoContents) ELSE None)
            /\ (contributorsOutcome' # "ok" => Val(result').contributors = None)]_vars

ContributorFailureWitness ==
    /\ pc = "Done"
    /\ contributorsOutcome \in {"status", "throw", "object", "malformed"}
    /\ Val(result).contributors = None
    /\ IsSome(Val(result).repoContents)
    /\ IsSome(Val(result).repoName)

\* C7: a recursive tree answered with truncated = true is processed like
\* the same tree answered with truncated = false: the run goes on to the
\* selection with the entries of the untruncated answer, and it returns a
\* result without error that holds the selected repoContents.
TruncatedTreeNonFatal ==
    treeOutcome = "ok" =>
        /\ pc \in {"SelectingContent", "FetchingContributors", "Done"}
        /\ allFilesFromTree = TreeEntries([truncated |-> FALSE, tree |-> Remote.tree],
                                          owner, repo, defaultBranch)
        /\ filesOnly = SelectCandidates(allFilesFromTree)
        /\ ~ReturnedError
        /\ pc = "Done" =>
              Val(result).repoContents =
                 (IF Len(repoContents) > 0 THEN Some(repoContents) ELSE None)

TruncatedTreeWitness ==
    /\ Remote.truncated
    /\ treeOutcome = "ok"
    /\ pc = "Done"
    /\ IsSome(Val(result).repoContents)
    /\ Len(Val(Val(result).repoContents)) = 3

\* the i-th character of a text, 1 <= i <= TextLength(t)
RECURSIVE TextCharAt(_, _)
TextCharAt(t, i) ==
    IF i <= t[1].n THEN t[1].c ELSE TextCharAt(Tail(t), i - t[1].n)

\* C8: a successful fetch of a text longer than MAX_FILE_CONTENT_LENGTH
\* returns no error and a content of exactly MAX_FILE_CONTENT_LENGTH plus
\* the marker's length characters that starts with the first
\* MAX_FILE_CONTENT_LENGTH characters of the text; a shorter text is
\* returned unchanged.
TruncationExact ==
    (IsSome(fOut) /\ IsSome(Val(fOut).requested) /\ Val(fArgs).resp.kind = "ok") =>
        LET text == Val(fArgs).resp.body
            out == Val(fOut)
        IN /\ out.error = None
           /\ IsSome(out.content)
           /\ IF TextLength(text) > MAX_FILE_CONTENT_LENGTH
              THEN /\ TextLength(Val(out.content))
                         = MAX_FILE_CONTENT_LENGTH + TextLength(TruncationMarker)
                   /\ TextSubstring0(Val(out.content), MAX_FILE_CONTENT_LENGTH)
                         = TextSubstring0(text, MAX_FILE_CONTENT_LENGTH)
                   /\ \A i \in {1, 2, MAX_FILE_CONTENT_LENGTH - 1, MAX_FILE_CONTENT_LENGTH} :
                         TextCharAt(Val(out.content), i) = TextCharAt(text, i)
              ELSE Val(out.content) = text

TruncationWitness ==
    /\ IsSome(fOut)
    /\ IsSome(Val(fOut).requested)
    /\ Val(fArgs).resp.kind = "ok"
    /\ TextLength(Val(fArgs).resp.body) = MAX_FILE_CONTENT_LENGTH + 1
    /\ TextLength(Val(Val(fOut).content)) = MAX_FILE_CONTENT_LENGTH + 29

\* the name is README, or README followed by .md, .rst, .txt or .markdown,
\* in any letter case
IsReadmeName(name) ==
    \E suffix \in {<<>>, <<".", "m", "d">>, <<".", "r", "s", "t">>, <<".", "t", "x", "t">>, <<".", "m", "a", "r", "k", "d", "o", "w", "n">>} :
        toLowerCase(name) = <<"r", "e", "a", "d", "m", "e">> \o suffix

\* C9: a call of getFilePriority on an entry with a README name returns 1,
\* whatever the path of the entry.
ReadmeIsTierOne ==
    (IsSome(cLast) /\ IsReadmeName(Val(cFile).name)) => Val(cLast) = 1

ReadmeWitness ==
    /\ IsSome(cLast)
    /\ Val(cFile).name = <<"R", "e", "a", "d", "M", "e", ".", "M", "D">>
    /\ Val(cFile).path = <<"d", "o", "c", "s", "/", "a", "p", "p", ".", "j", "s">>
    /\ Val(cLast) = 1

\* C10: every call of getFilePriority returns a tier of {1,...,7,10}; a
\* later call on the same name and path returns what the first call
\* returned, whatever calls were made in between and whatever the other
\* fields of the entry hold; and a call leaves no state behind in the
\* RegExp objects.
PriorityTotalDeterministic ==
    /\ IsSome(cLast) => /\ Val(cLast) \in {1, 2, 3, 4, 5, 6, 7, 10}
                        /\ cLast = cFirst
    /\ lastIndex = LastIndexInit

PriorityDeterministicWitness ==
    /\ cCalls >= 3
    /\ IsSome(cLast)
    /\ Val(cLast) = 7
    /\ IsSome(Val(cFile).error)
    /\ Val(cFile).size = Some(70000)



\* the listing the provider returned: the recursive tree, or the top-level
\* contents when the run fell back to them
ProviderListing == IF treeOutcome = "ok" THEN Remote.tree ELSE Remote.contents
ListingIndex(path) ==
    CHOOSE i \in DOMAIN ProviderListing : ProviderListing[i].path = path

\* entries of equal tier stand in the order of the provider's listing
RECURSIVE ListingIndices(_)
ListingIndices(list) ==
    IF list = <<>> THEN <<>>
    ELSE <<ListingIndex(Head(list).path)>> \o ListingIndices(Tail(list))

KeepsListingOrder(list) ==
    LET tier == Tiers(list)
        listed == ListingIndices(list)
    IN \A i, j \in DOMAIN list :
          (i < j /\ tier[i] = tier[j]) => listed[i] < listed[j]

\* C11: any two entries of equal tier stand in the sorted candidate list,
\* and in the returned repoContents, in the order they have in the listing
\* the provider returned.
StableOrdering ==
    /\ []((pc = "SelectingContent" /\ cursor = 1) => KeepsListingOrder(filesOnly))
    /\ [][(pc \in {"SelectingContent", "FetchingContributors", "Done"})
             => (filesOnly' = filesOnly)]_vars
    /\ [](pc = "FetchingContributors" => KeepsListingOrder(repoContents))
    /\ []((Returned /\ IsSome(Val(result).repoContents))
             => Val(Val(result).repoContents) = repoContents)

\* a returned list in which the sort moved an entry in front of entries
\* listed before it, and which holds several entries of one tier
StableOrderingWitness ==
    /\ pc = "Done"
    /\ IsSome(Val(result).repoContents)
    /\ LET list == Val(Val(result).repoContents)
       IN /\ \E i, j \in DOMAIN list :
                /\ i < j
                /\ list[i].path = <<"a", "p", "p", "/", "h", "u", "g", "e", ".", "s", "q", "l">>
                /\ list[j].path = <<"a", "p", "p", "/", "e", "d", "g", "e", ".", "s", "q", "l">>
                /\ priority(list[i]) = priority(list[j])
          /\ \E i, j \in DOMAIN list :
                /\ i < j
                /\ list[i].path = <<"p", "a", "c", "k", "a", "g", "e", "-", "l", "o", "c", "k", ".", "j", "s", "o", "n">>
                /\ list[j].path = <<"a", "p", "p", "/", "h", "u", "g", "e", ".", "s", "q", "l">>
                /\ ListingIndex(list[i].path) > ListingIndex(list[j].path)

\* the path ends with an extension of SOURCE_FILE_EXTENSIONS as spelled there
HasSourceExtension(path) == \E ext \in SOURCE_FILE_EXTENSIONS : endsWith(path, ext)

\* every candidate can be fetched and the raw host serves a non-empty text
\* for it, and no request of the run has failed
AllFetchesSucceed ==
    /\ failures = 0
    /\ \A i \in DOMAIN filesOnly :
          /\ IsSome(filesOnly[i].download_url)
                \/ (IsSome(filesOnly[i].sha) /\ Len(filesOnly[i].path) > 0)
          /\ TextLength(RemoteText(Remote, filesOnly[i].path)) > 0

\* no candidate is larger than three times the per-file cap
NoneOversized ==
    \A i \in DOMAIN filesOnly :
        ~(IsSome(filesOnly[i].size) /\ Val(filesOnly[i].size) > 3 * MAX_FILE_CONTENT_LENGTH)

ReturnedContents ==
    IF Returned /\ IsSome(Val(result).repoContents)
    THEN Val(Val(result).repoContents) ELSE <<>>

\* C12: in a run where every fetch succeeds with non-empty text and no file
\* is oversized, the returned entries that carry content are the first
\* min(n, 12) candidates of the tier-sorted list, in that order and with
\* their text; every entry behind them has the limit annotation and no
\* content, and every later candidate that is a README, license or manifest
\* file or has a source extension is among those.  For README.md,
\* package.json and the .ts files of the scenario the list starts with
\* README.md and package.json, followed by 10 source files with content.
ScenarioA ==
    (pc = "Done" /\ AllFetchesSucceed /\ NoneOversized) =>
        LET n == Len(filesOnly)
            m == IF n < MAX_FILES_FOR_CONTENT_FETCH THEN n ELSE MAX_FILES_FOR_CONTENT_FETCH
            list == ReturnedContents
        IN /\ Len(list) >= m
           /\ \A i \in 1..m :
                 /\ list[i].path = filesOnly[i].path
                 /\ CarriesContent(list[i])
                 /\ Val(list[i].content) = ContentOf(RemoteText(Remote, filesOnly[i].path))
           /\ \A i \in (m + 1)..Len(list) :
                 /\ list[i].content = None
                 /\ list[i].error = Some(LimitError)
           /\ \A k \in (m + 1)..n :
                 (isPriorityFile(filesOnly[k]) \/ HasSourceExtension(filesOnly[k].path))
                    => \E i \in (m + 1)..Len(list) : list[i].path = filesOnly[k].path
           /\ (Remote = ScenarioARepo /\ treeOutcome = "ok") =>
                 /\ list[1].path = <<"R", "E", "A", "D", "M", "E", ".", "m", "d">>
                 /\ list[2].path = <<"p", "a", "c", "k", "a", "g", "e", ".", "j", "s", "o", "n">>
                 /\ \A i \in 3..MAX_FILES_FOR_CONTENT_FETCH :
                       /\ priority(list[i]) \in {4, 6}
                       /\ HasSourceExtension(list[i].path)
                 /\ Len(list) = NumScenarioFiles + 2

ScenarioAWitness ==
    /\ pc = "Done"
    /\ AllFetchesSucceed
    /\ NoneOversized
    /\ Remote = ScenarioARepo
    /\ Len(filesOnly) = NumScenarioFiles + 2
    /\ Cardinality(ContentEntries(ReturnedContents)) = MAX_FILES_FOR_CONTENT_FETCH
    /\ ReturnedContents[MAX_FILES_FOR_CONTENT_FETCH + 1].error = Some(LimitError)

\* the phase of the run: the request for the top-level listing belongs to
\* FetchingTree
Phase(p) == IF p = "FetchingTreeFallback" THEN "FetchingTree" ELSE p
PhaseOrder ==
    <<"Parsing", "FetchingMetadata", "FetchingTree", "SelectingContent",
      "FetchingContributors", "Done">>

\* C13: a run changes phase only to the next phase of Parsing,
\* FetchingMetadata, FetchingTree, SelectingContent, FetchingContributors,
\* Done, or to Error from one of the first three; Done and Error are final;
\* a result carries an error exactly in Error, so from SelectingContent on
\* no result with error is returned, whatever the content requests and the
\* contributors request answer.
PhaseStateMachine ==
    /\ [][Phase(pc') # Phase(pc) =>
             \/ \E i \in 1..(Len(PhaseOrder) - 1) :
                   Phase(pc) = PhaseOrder[i] /\ Phase(pc') = PhaseOrder[i + 1]
             \/ /\ pc' = "Error"
                /\ Phase(pc) \in {"Parsing", "FetchingMetadata", "FetchingTree"}]_vars
    /\ [][(pc \in {"Done", "Error"}) => (pc' = pc)]_vars
    /\ [](pc \in {"SelectingContent", "FetchingContributors", "Done"} => ~ReturnedError)
    /\ [](ReturnedError <=> pc = "Error")
    /\ [](Returned <=> pc \in {"Done", "Error"})

\* a run that got through although a content request and the contributors
\* request failed
PhaseWitness ==
    /\ pc = "Done"
    /\ failures > 0
    /\ contributorsOutcome = "throw"
    /\ Returned
    /\ ~ReturnedError
    /\ Apis[Len(Apis)] = "contributors"

\* C14: whenever a request has been issued, owner and repo are non-empty
\* and repo does not end with ".git"; so a URL that yields no such pair is
\* rejected before any request.
RepoIdentifierInvariant ==
    requests # <<>> =>
        /\ owner # <<>>
        /\ repo # <<>>
        /\ ~endsWith(repo, <<".", "g", "i", "t">>)

\* the tiers of the entries never fall from one entry to the next
NonDecreasingTiers(list) ==
    LET tier == Tiers(list)
    IN \A i \in 1..(Len(list) - 1) : tier[i] <= tier[i + 1]

\* C15: in every returned repoContents the tier of an entry is less than or
\* equal to the tier of the entry after it (the list the final sort leaves
\* is in that order, and it is the list returned).
PriorityOrderedOutput ==
    /\ [](pc = "FetchingContributors" => NonDecreasingTiers(repoContents))
    /\ [](Returned => ReturnedContents = (IF ReturnedError THEN <<>> ELSE repoContents))

\* a returned list that spans several tiers
PriorityOrderedWitness ==
    /\ pc = "Done"
    /\ Len(ReturnedContents) >= 4
    /\ priority(ReturnedContents[1]) = 3
    /\ priority(ReturnedContents[2]) = 4
    /\ priority(ReturnedContents[Len(ReturnedContents)]) = 7

\* the entry has a content (a fetched text, which may be empty or cut) or
\* an error, and not both
ContentXorError(e) == IsSome(e.content) # IsSome(e.error)

\* C16: every entry of repoContents, while the list is built and when it is
\* returned, has exactly one of content and error set.
ExactlyContentOrError ==
    /\ \A i \in DOMAIN repoContents : ContentXorError(repoContents[i])
    /\ \A i \in DOMAIN ReturnedContents : ContentXorError(ReturnedContents[i])

\* a returned list with fetched entries, an entry skipped as too large and
\* an entry with the limit annotation
ExactlyContentOrErrorWitness ==
    /\ pc = "Done"
    /\ \E i \in DOMAIN ReturnedContents : CarriesContent(ReturnedContents[i])
    /\ \E i \in DOMAIN ReturnedContents :
          /\ ReturnedContents[i].content = None
          /\ ReturnedContents[i].error = Some(LimitError)
    /\ \E i \in DOMAIN ReturnedContents :
          /\ ReturnedContents[i].content = None
          /\ IsSome(ReturnedContents[i].error)
          /\ ContainsTooLarge(Val(ReturnedContents[i].error))

\* the contributors of the result, if it has any
ReturnedContributors ==
    IF Returned /\ IsSome(Val(result).contributors)
    THEN Val(Val(result).contributors) ELSE <<>>

\* the place in the provider's array of the record with this login
ProviderIndex(login) ==
    CHOOSE i \in DOMAIN Remote.contributors : Remote.contributors[i].login = login

\* C17: a result that has contributors has at most
\* MAX_CONTRIBUTORS_TO_FETCH of them; each has a login, an avatar_url and a
\* html_url and is a record of the provider's array whose type is not
\* 'Bot'; and they stand in the order of the provider's array.
ContributorList ==
    (Returned /\ IsSome(Val(result).contributors)) =>
        LET list == ReturnedContributors
        IN /\ Len(list) <= MAX_CONTRIBUTORS_TO_FETCH
           /\ \A i \in DOMAIN list :
                 /\ TruthyString(list[i].login)
                 /\ TruthyString(list[i].avatar_url)
                 /\ TruthyString(list[i].html_url)
                 /\ \E k \in DOMAIN Remote.contributors :
                       Remote.contributors[k].login = list[i].login
                 /\ Remote.contributors[ProviderIndex(list[i].login)].type # Some("Bot")
           /\ \A i, j \in DOMAIN list :
                 i < j => ProviderIndex(list[i].login) < ProviderIndex(list[j].login)

\* the provider sent bots, incomplete records and more complete records
\* than the maximum, and the result holds the maximum
ContributorListWitness ==
    /\ pc = "Done"
    /\ Len(ReturnedContributors) = MAX_CONTRIBUTORS_TO_FETCH
    /\ Len(Remote.contributors) > MAX_CONTRIBUTORS_TO_FETCH
    /\ Cardinality({k \in DOMAIN Remote.contributors :
                       /\ Remote.contributors[k].type # Some("Bot")
                       /\ TruthyString(Remote.contributors[k].login)
                       /\ TruthyString(Remote.contributors[k].avatar_url)
                       /\ TruthyString(Remote.contributors[k].html_url)})
          > MAX_CONTRIBUTORS_TO_FETCH
    /\ \E k \in DOMAIN Remote.contributors : Remote.contributors[k].type = Some("Bot")

(***************************************************************************)
(* C18: fatal error at the flow level.  Whenever fetchRepoInfoTool has     *)
(* returned a result with error set and generateReadmeFlow has taken it    *)
(* up, the flow has returned exactly one readme entry, with language       *)
(* 'Error', fileName 'ERROR.md' and a content that embeds the error text,  *)
(* and it has invoked neither the generation prompt nor any translation.   *)
(***************************************************************************)
FlowFatalError ==
    (fpc \notin {"Idle", "AwaitingTool"} /\ ReturnedError) =>
        /\ fpc = "Returned"
        /\ IsSome(flowOutput)
        /\ Len(Val(flowOutput).readmes) = 1
        /\ Val(flowOutput).readmes[1].language = <<"E", "r", "r", "o", "r">>
        /\ Val(flowOutput).readmes[1].fileName = <<"E", "R", "R", "O", "R", ".", "m", "d">>
        /\ Len(Val(flowOutput).readmes[1].content) = 3
        /\ Val(flowOutput).readmes[1].content[2] = Val(Val(result).error)
        /\ promptCalls = 0
        /\ translateCalls = <<>>
        /\ flowError = None

\* the flow has exited early although two translations were requested
FlowFatalErrorWitness ==
    /\ fpc = "Returned"
    /\ ReturnedError
    /\ flowInput.targetLanguages = Some(<<Spanish, Klingon>>)
    /\ Len(Val(flowOutput).readmes) = 1

(***************************************************************************)
(* C19: budget counter frame.  Every step changes fetchedContentCount by   *)
(* +1 or not at all, so the counter never decreases.  It changes only in   *)
(* an iteration of the selection loop that called fetchFileContent and     *)
(* appended an entry with content and no error.  An iteration that drops   *)
(* the file, or appends an entry with an error (a fetch error, a 'too      *)
(* large' skip, the limit annotation), leaves the counter unchanged.       *)
(***************************************************************************)
CounterFrame ==
    [][/\ (fetchedContentCount' = fetchedContentCount) \/ (fetchedContentCount' = fetchedContentCount + 1)
       /\ (fetchedContentCount' # fetchedContentCount) =>
             (/\ pc = "SelectingContent"
              /\ cursor' = cursor + 1
              /\ attempts' = Append(attempts, filesOnly[cursor].path)
              /\ Len(repoContents') = Len(repoContents) + 1
              /\ TruthyText(repoContents'[Len(repoContents')].content)
              /\ ~IsSome(repoContents'[Len(repoContents')].error))
       /\ ((pc = "SelectingContent" /\ cursor' = cursor + 1) =>
             (/\ (repoContents' = repoContents) => (fetchedContentCount' = fetchedContentCount)
              /\ (Len(repoContents') > Len(repoContents)
                    /\ IsSome(repoContents'[Len(repoContents')].error)) =>
                       (fetchedContentCount' = fetchedContentCount)))]_vars

\* the loop has counted twelve files, has recorded a 'too large' skip and a
\* limit annotation, and has dropped a file
CounterFrameWitness ==
    /\ pc = "SelectingContent"
    /\ fetchedContentCount = MAX_FILES_FOR_CONTENT_FETCH
    /\ \E i \in DOMAIN repoContents : /\ IsSome(repoContents[i].error)
                                      /\ Val(repoContents[i].error).kind = TooLargeError(1).kind
    /\ \E i \in DOMAIN repoContents : repoContents[i].error = Some(LimitError)
    /\ cursor - 1 > Len(repoContents)

\* the entries of a list for a path
EntriesFor(list, path) == {i \in DOMAIN list : list[i].path = path}

\* what the output holds of the k-th candidate, which the loop has reached
ReachedFileSettled(list, k) ==
    LET file == filesOnly[k]
        entries == EntriesFor(list, file.path)
    IN IF countWhenReached[k] = MAX_FILES_FOR_CONTENT_FETCH
       THEN IF isPriorityFile(file) \/ HasSourceExtension(file.path)
            THEN /\ Cardinality(entries) = 1
                 /\ \A i \in entries : /\ list[i].content = None
                                       /\ list[i].error = Some(LimitError)
            ELSE entries = {}
       ELSE /\ countWhenReached[k] < MAX_FILES_FOR_CONTENT_FETCH
            /\ entries # {}

(***************************************************************************)
(* C20: after budget exhaustion.  Every file the loop has reached with     *)
(* fetchedContentCount equal to 12 has, in repoContents and in the         *)
(* returned list, one entry without content and with the 'not fetched due  *)
(* to limit' error if it is a README, license or manifest file or its      *)
(* path ends with a source extension, and no entry otherwise; every file   *)
(* the loop has reached with the counter below 12 has an entry.            *)
(***************************************************************************)
AfterExhaustion ==
    /\ \A k \in DOMAIN countWhenReached : ReachedFileSettled(repoContents, k)
    /\ (Returned /\ ~ReturnedError /\ Len(filesOnly) > 0) =>
          \A k \in DOMAIN countWhenReached : ReachedFileSettled(ReturnedContents, k)

\* a run has returned in which, past the limit, a manifest and a source file
\* were annotated and two files were dropped
AfterExhaustionWitness ==
    /\ pc = "Done"
    /\ Len(countWhenReached) = Len(filesOnly)
    /\ \E k \in DOMAIN filesOnly :
          /\ countWhenReached[k] = MAX_FILES_FOR_CONTENT_FETCH
          /\ Test(MANIFEST_FILES_REGEX, filesOnly[k].name)
          /\ EntriesFor(ReturnedContents, filesOnly[k].path) # {}
    /\ \E k \in DOMAIN filesOnly :
          /\ countWhenReached[k] = MAX_FILES_FOR_CONTENT_FETCH
          /\ ~isPriorityFile(filesOnly[k])
          /\ HasSourceExtension(filesOnly[k].path)
          /\ EntriesFor(ReturnedContents, filesOnly[k].path) # {}
    /\ Cardinality({k \in DOMAIN filesOnly :
                       /\ countWhenReached[k] = MAX_FILES_FOR_CONTENT_FETCH
                       /\ EntriesFor(ReturnedContents, filesOnly[k].path) = {}}) >= 2
    /\ \E k \in DOMAIN filesOnly : countWhenReached[k] < MAX_FILES_FOR_CONTENT_FETCH

(***************************************************************************)
(* The rules of the File Classifier, stated on the lower-cased name and    *)
(* path, for comparison with getFilePriority.                              *)
(***************************************************************************)
RuleReadmeName(name) ==
    toLowerCase(name) \in {<<"r", "e", "a", "d", "m", "e">>, <<"r", "e", "a", "d", "m", "e", ".", "m", "d">>, <<"r", "e", "a", "d", "m", "e", ".", "r", "s", "t">>, <<"r", "e", "a", "d", "m", "e", ".", "t", "x", "t">>, <<"r", "e", "a", "d", "m", "e", ".", "m", "a", "r", "k", "d", "o", "w", "n">>}

RuleLicenseName(name) ==
    toLowerCase(name) \in {<<"l", "i", "c", "e", "n", "s", "e">>, <<"l", "i", "c", "e", "n", "s", "e", ".", "m", "d">>, <<"l", "i", "c", "e", "n", "s", "e", ".", "t", "x", "t">>, <<"l", "i", "c", "e", "n", "s", "e", ".", "r", "s", "t">>,
                           <<"c", "o", "p", "y", "i", "n", "g">>, <<"c", "o", "p", "y", "i", "n", "g", ".", "m", "d">>, <<"c", "o", "p", "y", "i", "n", "g", ".", "t", "x", "t">>, <<"c", "o", "p", "y", "i", "n", "g", ".", "r", "s", "t">>}

RuleManifestName(name) ==
    toLowerCase(name) \in
        {<<"p", "a", "c", "k", "a", "g", "e", ".", "j", "s", "o", "n">>, <<"p", "n", "p", "m", "-", "l", "o", "c", "k", ".", "y", "a", "m", "l">>, <<"y", "a", "r", "n", ".", "l", "o", "c", "k">>, <<"p", "a", "c", "k", "a", "g", "e", "-", "l", "o", "c", "k", ".", "j", "s", "o", "n">>, <<"p", "y", "p", "r", "o", "j", "e", "c", "t", ".", "t", "o", "m", "l">>,
         <<"p", "o", "e", "t", "r", "y", ".", "l", "o", "c", "k">>, <<"r", "e", "q", "u", "i", "r", "e", "m", "e", "n", "t", "s", ".", "t", "x", "t">>, <<"c", "o", "m", "p", "o", "s", "e", "r", ".", "j", "s", "o", "n">>, <<"c", "o", "m", "p", "o", "s", "e", "r", ".", "l", "o", "c", "k">>, <<"g", "e", "m", "f", "i", "l", "e">>,
         <<"g", "e", "m", "f", "i", "l", "e", ".", "l", "o", "c", "k">>, <<"p", "o", "m", ".", "x", "m", "l">>, <<"b", "u", "i", "l", "d", ".", "g", "r", "a", "d", "l", "e">>, <<"c", "a", "r", "g", "o", ".", "t", "o", "m", "l">>, <<"c", "a", "r", "g", "o", ".", "l", "o", "c", "k">>, <<"g", "o", ".", "m", "o", "d">>,
         <<"g", "o", ".", "s", "u", "m">>, <<"m", "a", "k", "e", "f", "i", "l", "e">>, <<"d", "o", "c", "k", "e", "r", "f", "i", "l", "e">>, <<"d", "o", "c", "k", "e", "r", "-", "c", "o", "m", "p", "o", "s", "e", ".", "y", "m", "l">>, <<"d", "o", "c", "k", "e", "r", "-", "c", "o", "m", "p", "o", "s", "e", ".", "y", "a", "m", "l">>}

RuleSourceExtension(path) ==
    \E ext \in {<<".", "j", "s">>, <<".", "t", "s">>, <<".", "t", "s", "x">>, <<".", "j", "s", "x">>, <<".", "p", "y">>, <<".", "j", "a", "v", "a">>, <<".", "g", "o">>, <<".", "r", "s">>, <<".", "r", "b">>, <<".", "p", "h", "p">>,
                <<".", "c", "s">>, <<".", "c">>, <<".", "c", "p", "p">>, <<".", "s", "w", "i", "f", "t">>, <<".", "k", "t">>, <<".", "m">>, <<".", "s", "c", "a", "l", "a">>, <<".", "p", "l">>, <<".", "s", "h">>,
                <<".", "l", "u", "a">>, <<".", "s", "q", "l">>, <<".", "h", "t", "m", "l">>, <<".", "c", "s", "s">>, <<".", "v", "u", "e">>} :
        /\ Len(path) >= Len(ext)
        /\ toLowerCase(SubSeq(path, Len(path) - Len(ext) + 1, Len(path))) = ext

\* the path starts with one of the directory names followed by a slash
RuleUnder(path, dirs) ==
    \E d \in dirs : /\ Len(path) > Len(d)
                    /\ toLowerCase(SubSeq(path, 1, Len(d))) = d
                    /\ path[Len(d) + 1] = "/"

RuleSourceDir(path) ==
    RuleUnder(path, {<<"s", "r", "c">>, <<"l", "i", "b">>, <<"a", "p", "p">>, <<"s", "o", "u", "r", "c", "e">>, <<"s", "o", "u", "r", "c", "e", "s">>, <<"i", "n", "c", "l", "u", "d", "e">>, <<"p", "k", "g">>, <<"c", "m", "d">>,
                     <<"i", "n", "t", "e", "r", "n", "a", "l">>, <<"c", "o", "r", "e">>, <<"m", "a", "i", "n">>, <<"s", "e", "r", "v", "e", "r">>, <<"c", "l", "i", "e", "n", "t">>})

RuleTestDir(path) == RuleUnder(path, {<<"t", "e", "s", "t">>, <<"t", "e", "s", "t", "s">>, <<"s", "p", "e", "c">>, <<"e", "2", "e">>})

RuleDocsDir(path) == RuleUnder(path, {<<"d", "o", "c">>, <<"d", "o", "c", "s">>, <<"d", "o", "c", "u", "m", "e", "n", "t", "a", "t", "i", "o", "n">>, <<"e", "x", "a", "m", "p", "l", "e", "s">>})

RuleHint(path) ==
    \E hint \in {<<"m", "a", "i", "n">>, <<"a", "p", "p">>, <<"i", "n", "d", "e", "x">>, <<"c", "o", "n", "f", "i", "g">>} :
        \E i \in 1..Len(path) : /\ i + Len(hint) - 1 <= Len(path)
                                /\ toLowerCase(SubSeq(path, i, i + Len(hint) - 1)) = hint

\* rules 1 to 6 in order, each a condition and the tier it yields
ClassifierRules(file) ==
    <<<<RuleReadmeName(file.name), 1>>,
      <<RuleLicenseName(file.name), 2>>,
      <<RuleManifestName(file.name), 3>>,
      <<RuleSourceExtension(file.path) /\ RuleSourceDir(file.path), 4>>,
      <<RuleSourceExtension(file.path) /\ RuleHint(file.path), 5>>,
      <<RuleSourceExtension(file.path) /\ ~RuleTestDir(file.path) /\ ~RuleDocsDir(file.path), 6>>,
      <<RuleDocsDir(file.path) /\ RuleSourceExtension(file.path), 7>>,
      <<TRUE, 10>>>>

\* first match wins
FirstMatch(rules) == rules[CHOOSE i \in DOMAIN rules :
                               rules[i][1] /\ \A j \in 1..(i - 1) : ~rules[j][1]][2]

(***************************************************************************)
(* C21: every call of getFilePriority returns the tier of the first rule   *)
(* of the File Classifier that matches the name and path of the entry:     *)
(* README name 1, license name 2, manifest name 3, source extension under  *)
(* a source directory 4, else with an entry-point hint in the path 5, else *)
(* outside test and documentation directories 6, documentation directory   *)
(* and source extension 7, otherwise 10.  A documentation-directory source *)
(* file with a hint gets 5; a test-directory source file without a hint    *)
(* gets 10.                                                                *)
(***************************************************************************)
FirstMatchClassifier ==
    IsSome(cLast) =>
        /\ Val(cLast) = FirstMatch(ClassifierRules(Val(cFile)))
        /\ (Val(cFile).path = <<"d", "o", "c", "s", "/", "a", "p", "p", ".", "j", "s">> /\ Val(cFile).name = <<"i", "n", "d", "e", "x", ".", "t", "s">>) => (Val(cLast) = 5)
        /\ (Val(cFile).path = <<"t", "e", "s", "t", "/", "a", ".", "t", "s">> /\ Val(cFile).name = <<"i", "n", "d", "e", "x", ".", "t", "s">>) => (Val(cLast) = 10)

\* a documentation-directory source file with a hint has been classified
FirstMatchClassifierWitness ==
    /\ IsSome(cLast)
    /\ Val(cFile).path = <<"d", "o", "c", "s", "/", "a", "p", "p", ".", "j", "s">>
    /\ Val(cFile).name = <<"u", "t", "i", "l", ".", "P", "Y">>
    /\ Val(cLast) = 5

(***************************************************************************)
(* C22: download URL resolution.  A call of fetchFileContent on an entry   *)
(* with a download URL of its own requests that URL; on an entry without   *)
(* one but with a path it requests the URL constructed from owner, repo,   *)
(* branch and path; it returns the 'No download URL could be constructed'  *)
(* error, with no request, only for an entry with neither.                 *)
(***************************************************************************)
DownloadUrlResolution ==
    IsSome(fOut) =>
        LET file == Val(fArgs).file
            out == Val(fOut)
            constructed == RawUrl(Acme, Widget, <<"m", "a", "i", "n">>, encodeURIComponent(file.path))
        IN /\ IsSome(file.download_url) => (out.requested = file.download_url)
           /\ (~IsSome(file.download_url) /\ Len(file.path) > 0) =>
                 (out.requested = Some(constructed))
           /\ (out.error = Some(NoDownloadUrlError)) =>
                 (/\ out.requested = None
                  /\ ~IsSome(file.download_url)
                  /\ Len(file.path) = 0)

\* the candidates attempted so far, in the order of the attempts
AttemptedFiles ==
    [i \in DOMAIN attempts |->
        filesOnly[CHOOSE k \in DOMAIN filesOnly : filesOnly[k].path = attempts[i]]]

(***************************************************************************)
(* C23: sequential single pass.  At most one content request is in flight  *)
(* at any time; when a request is in flight it is the one of the latest    *)
(* attempt, and every earlier attempted file has its outcome recorded in   *)
(* repoContents; the attempts are issued in non-decreasing tier order; no  *)
(* file is attempted twice, so a failed fetch is never retried.            *)
(***************************************************************************)
SequentialSinglePass ==
    /\ Cardinality(inFlight) <= 1
    /\ \A k \in inFlight : filesOnly[k].path = attempts[Len(attempts)]
    /\ \A i \in DOMAIN attempts :
          (i < Len(attempts) \/ inFlight = {}) =>
             Cardinality(EntriesFor(repoContents, attempts[i])) = 1
    /\ \A i, j \in DOMAIN attempts : (i # j) => (attempts[i] # attempts[j])
    /\ (pc = "FetchingContributors") => NonDecreasingTiers(AttemptedFiles)

\* a request is in flight after an earlier request has failed and its error
\* has been recorded
SequentialSinglePassWitness ==
    /\ Cardinality(inFlight) = 1
    /\ failures > 0
    /\ Len(attempts) > 2
    /\ \E i \in DOMAIN repoContents : /\ IsSome(repoContents[i].error)
                                      /\ repoContents[i].path \in Range(attempts)

\* the run ended at the repository details request
DetailsFailed == pc = "Error" /\ Apis = <<"repos">>

\* the three cause texts of a details error
InvalidOrPrivateCause == "Failed to fetch repository details. This could be an invalid URL or a private repository for which the provided token (if any) is invalid or lacks permissions."
AuthenticationCause == "Failed to fetch repository details. Authentication failed."
RateLimitCause == "Failed to fetch repository details. This could also be due to API rate limits."

(***************************************************************************)
(* C24: metadata error classification.  When the repository details        *)
(* request fails, the returned error names exactly one cause, chosen by    *)
(* the status code alone: 404 an invalid URL or a private repository, 401  *)
(* or 403 a failed authentication, any other status a possible API rate    *)
(* limit; when the request throws, the error is 'Exception fetching        *)
(* repository details' and names none of the three.                        *)
(***************************************************************************)
MetadataErrorClassification ==
    DetailsFailed =>
        LET error == Val(Val(result).error)
            causes == {InvalidOrPrivateCause, AuthenticationCause, RateLimitCause}
        IN IF error.kind \in causes
           THEN /\ error.status \notin 200..299
                /\ error.status # 0
                /\ (error.kind = InvalidOrPrivateCause) <=> (error.status = 404)
                /\ (error.kind = AuthenticationCause) <=> (error.status \in {401, 403})
                /\ (error.kind = RateLimitCause) <=> (error.status \notin {401, 403, 404})
           ELSE /\ error.kind = "Exception fetching repository details"
                /\ error.status = 0

\* a run has ended on a 403 of the details request
MetadataErrorWitness ==
    /\ DetailsFailed
    /\ Val(Val(result).error).status = 403
    /\ Val(Val(result).error).kind = AuthenticationCause

(***************************************************************************)
(* C25: termination.  When every request eventually resolves or throws,    *)
(* every run of fetchRepoInfoTool eventually returns, with Done or Error,  *)
(* and stays returned, whatever the inventory and the fetch outcomes, also *)
(* when every fetch fails; at no point has the run attempted more fetches  *)
(* than the inventory has file entries.                                    *)
(***************************************************************************)
Termination ==
    /\ <>[](Returned /\ pc \in {"Done", "Error"})
    /\ [](Len(attempts) <= Len(filesOnly))

\* a run has returned after every fetch of its inventory failed
TerminationWitness ==
    /\ pc = "Done"
    /\ Returned
    /\ Len(filesOnly) >= 3
    /\ Len(attempts) = Len(filesOnly)
    /\ failures = Len(filesOnly)

\* the positions in filesOnly of the entries of a list, in order
CandidateIndices(list) ==
    [i \in DOMAIN list |-> CHOOSE k \in DOMAIN filesOnly : filesOnly[k].path = list[i].path]

\* the list holds candidates in the order of filesOnly, none twice
SubsequenceOfCandidates(list) ==
    /\ \A i \in DOMAIN list : \E k \in DOMAIN filesOnly : filesOnly[k].path = list[i].path
    /\ LET at == CandidateIndices(list)
       IN \A i \in 1..(Len(list) - 1) : at[i] < at[i + 1]

(***************************************************************************)
(* C26: the final re-sort is the identity.  The list the selection loop    *)
(* builds is a subsequence of the tier-sorted candidate list, so when the  *)
(* loop ends it is in non-decreasing tier order; the final sort leaves it  *)
(* as it is, and the returned list is the list in insertion order.         *)
(***************************************************************************)
FinalSortIsIdentity ==
    /\ []((pc = "SelectingContent") => SubsequenceOfCandidates(repoContents))
    /\ []((pc = "SelectingContent" /\ cursor > Len(filesOnly)) => NonDecreasingTiers(repoContents))
    /\ [][(pc = "SelectingContent" /\ pc' = "FetchingContributors") =>
             (repoContents' = repoContents)]_vars
    /\ []((Returned /\ IsSome(Val(result).repoContents)) =>
             (Val(Val(result).repoContents) = repoContents))

\* the loop has ended on a list of several tiers that holds an entry with
\* content after an entry with an error
FinalSortWitness ==
    /\ pc = "FetchingContributors"
    /\ \E i, j \in DOMAIN repoContents :
          /\ i < j
          /\ IsSome(repoContents[i].error)
          /\ CarriesContent(repoContents[j])
          /\ priority(repoContents[1]) < priority(repoContents[j])

(***************************************************************************)
(* C27: the over-budget relevance test agrees with the classifier.  Every  *)
(* file that getFilePriority places in tier 4, 5, 6 or 7 and that the loop *)
(* has reached with fetchedContentCount at 12 has an entry in repoContents *)
(* with the limit annotation and no content, whatever the letter case of   *)
(* its extension.                                                          *)
(***************************************************************************)
ClassifierAgreement ==
    \A k \in DOMAIN countWhenReached :
        (/\ countWhenReached[k] = MAX_FILES_FOR_CONTENT_FETCH
         /\ priority(filesOnly[k]) \in {4, 5, 6, 7}) =>
            \E i \in EntriesFor(repoContents, filesOnly[k].path) :
                /\ repoContents[i].content = None
                /\ repoContents[i].error = Some(LimitError)

\* the entry carries the limit annotation
LimitAnnotated(e) == e.error = Some(LimitError)

(***************************************************************************)
(* C28: exhaustion is permanent.  Once fetchedContentCount is 12 it stays  *)
(* 12, and no step attempts a file or issues a content request; in the     *)
(* returned repoContents no entry with the limit annotation precedes an    *)
(* entry without it (an attempted file or a 'too large' skip).             *)
(***************************************************************************)
ExhaustionIsPermanent ==
    /\ [][(fetchedContentCount = MAX_FILES_FOR_CONTENT_FETCH) =>
             (/\ fetchedContentCount' = MAX_FILES_FOR_CONTENT_FETCH
              /\ attempts' = attempts
              /\ (requests' # requests) => (requests'[Len(requests')].api # "raw"))]_vars
    /\ [](fetchedContentCount <= MAX_FILES_FOR_CONTENT_FETCH)
    /\ [](Returned =>
            \A i, j \in DOMAIN ReturnedContents :
                (LimitAnnotated(ReturnedContents[i]) /\ ~LimitAnnotated(ReturnedContents[j]))
                    => (j < i))

\* a run has returned twelve files with content, a 'too large' skip and
\* limit-annotated entries
ExhaustionWitness ==
    /\ pc = "Done"
    /\ fetchedContentCount = MAX_FILES_FOR_CONTENT_FETCH
    /\ \E i \in DOMAIN ReturnedContents : LimitAnnotated(ReturnedContents[i])
    /\ \E i \in DOMAIN ReturnedContents :
          /\ IsSome(ReturnedContents[i].error)
          /\ ~LimitAnnotated(ReturnedContents[i])
    /\ Len(countWhenReached) > Len(attempts) + 2

\* the target languages whose translation succeeded, from the i-th on, in the
\* order of targetLanguages
RECURSIVE TranslatedLanguages(_)
TranslatedLanguages(i) ==
    IF i > Len(translateCalls) THEN <<>>
    ELSE (IF IsSome(translationResults[i].value) THEN <<translateCalls[i]>> ELSE <<>>)
         \o TranslatedLanguages(i + 1)

\* the file name the flow gives the README of a language
ReadmeNameOf(lang) ==
    IF lang = <<"S", "p", "a", "n", "i", "s", "h">> THEN <<"R", "E", "A", "D", "M", "E", ".", "e", "s", ".", "m", "d">>
    ELSE IF lang = <<"F", "r", "e", "n", "c", "h">> THEN <<"R", "E", "A", "D", "M", "E", ".", "f", "r", ".", "m", "d">>
    ELSE <<"R", "E", "A", "D", "M", "E", ".">> \o toLowerCase(SubSeq(lang, 1, 2)) \o <<".", "m", "d">>

(***************************************************************************)
(* C29: translation isolation and order.  Once the translations have       *)
(* started the flow never throws, and when it has returned the readmes are *)
(* the English README.md followed by one entry per translation that        *)
(* succeeded, in the order of targetLanguages, whatever the order in which *)
(* the translations settled and whichever of them returned nothing or      *)
(* threw.                                                                  *)
(***************************************************************************)
TranslationIsolation ==
    /\ (translateCalls # <<>>) =>
          /\ fpc \in {"Translating", "Returned"}
          /\ flowError = None
          /\ translateCalls = Val(flowInput.targetLanguages)
    /\ (fpc = "Returned" /\ IsSome(originalReadmeContent)) =>
          LET readmes == Val(flowOutput).readmes
              translated == TranslatedLanguages(1)
          IN /\ Len(readmes) = 1 + Len(translated)
             /\ readmes[1].language = <<"E", "n", "g", "l", "i", "s", "h">>
             /\ readmes[1].fileName = <<"R", "E", "A", "D", "M", "E", ".", "m", "d">>
             /\ readmes[1].content[1] = Val(originalReadmeContent)
             /\ \A k \in DOMAIN translated :
                   /\ readmes[k + 1].language = translated[k]
                   /\ readmes[k + 1].fileName = ReadmeNameOf(translated[k])
                   /\ readmes[k + 1].content[1] =
                         Translation(Val(originalReadmeContent), translated[k])
             /\ (translateCalls = <<>>) =>
                   (~IsSome(flowInput.targetLanguages) \/ Val(flowInput.targetLanguages) = <<>>)

\* the flow has returned after the first and the last of three translations
\* succeeded and the middle one failed
TranslationIsolationWitness ==
    /\ fpc = "Returned"
    /\ Len(translateCalls) = 3
    /\ IsSome(translationResults[1].value)
    /\ ~IsSome(translationResults[2].value)
    /\ IsSome(translationResults[3].value)
    /\ Len(Val(flowOutput).readmes) = 3

-----------------------------------------------------------------------------
\* The page (src/app/page.tsx, function Home): the handlers of the buttons and
\* the two server calls they await.  A handler runs up to its await in one
\* step; the call settles in a later step, in any order with the other
\* handlers the view on display offers.

MaxReadmeSets == 3

\* the README a generation writes for README set n, and EXAMPLE_README_OBJECT's
\* content (lines 28-65)
GeneratedContent(n, fileName) ==
    [text |-> "generated", set |-> n, fileName |-> fileName, userEdits |-> None]
ExampleContent ==
    [text |-> "example", set |-> 0, fileName |-> <<"R", "E", "A", "D", "M", "E", ".", "m", "d">>, userEdits |-> None]

\* improve-readme.ts: result.improvedReadme, the original with the edits worked in
improvedReadme(originalReadme, userEdits) ==
    [originalReadme EXCEPT !.text = "improved", !.userEdits = Some(userEdits)]

\* Lines 25-66
EXAMPLE_README_OBJECT == ReadmeObject(<<"E", "n", "g", "l", "i", "s", "h">>, <<"R", "E", "A", "D", "M", "E", ".", "m", "d">>, ExampleContent)

\* the form values that matter here: the translations asked for (line 97)
FormValues == {[targetLanguages |-> None], [targetLanguages |-> Some(<<Spanish>>)]}

\* the text the user typed into the preview before pressing Improve
UserEdits == {"edits"}

\* what generateReadme (line 99) settles to for README set n: a rejection, the
\* single 'Error' entry, no entry at all, or the English README followed by the
\* translations that succeeded
GenerateOutcomes(values, n) ==
    LET english == ReadmeObject(<<"E", "n", "g", "l", "i", "s", "h">>, <<"R", "E", "A", "D", "M", "E", ".", "m", "d">>, GeneratedContent(n, <<"R", "E", "A", "D", "M", "E", ".", "m", "d">>))
        spanish == ReadmeObject(Spanish, <<"R", "E", "A", "D", "M", "E", ".", "e", "s", ".", "m", "d">>, GeneratedContent(n, <<"R", "E", "A", "D", "M", "E", ".", "e", "s", ".", "m", "d">>))
    IN {[throws |-> TRUE, readmes |-> <<>>],
        [throws |-> FALSE, readmes |-> <<>>],
        [throws |-> FALSE,
         readmes |-> <<ReadmeObject(<<"E", "r", "r", "o", "r">>, <<"E", "R", "R", "O", "R", ".", "m", "d">>,
                                    [GeneratedContent(n, <<"E", "R", "R", "O", "R", ".", "m", "d">>) EXCEPT
                                        !.text = "## Unable to Analyze Repository"])>>],
        [throws |-> FALSE, readmes |-> <<english>>]}
       \cup (IF values.targetLanguages = Some(<<Spanish>>)
             THEN {[throws |-> FALSE, readmes |-> <<english, spanish>>]}
             ELSE {})

\* Lines 164-170: currentReadmes.map(r => r.fileName === fileName ? {...r, content} : r)
WithImprovedContent(currentReadmes, fileName, content) ==
    [i \in DOMAIN currentReadmes |->
        IF currentReadmes[i].fileName = fileName
        THEN [currentReadmes[i] EXCEPT !.content = content]
        ELSE currentReadmes[i]]

\* Lines 299-305 and readme-preview line 132: the preview, and with it the
\* Improve button, is on display and enabled
CanImprove ==
    /\ currentView = "results"
    /\ pageError = None
    /\ generatedReadmes # <<>>
    /\ ~isLoadingImprove

\* Lines 281-323: the "View Example README" button is on display
CanShowExample ==
    /\ currentView = "results"
    /\ (pageError # None \/ generatedReadmes = <<>>)

InitPage ==
    /\ ToolIdle
    /\ ClassifierIdle
    /\ ContentIdle
    /\ FlowIdle
    /\ PageIdle

\* Lines 83-99: the form (on display in the 'form' view only) is submitted
handleGenerateReadme ==
    /\ currentView = "form"
    /\ readmeSet < MaxReadmeSets
    /\ \E values \in FormValues : pendingGenerate' = Some(values)
    /\ readmeSet' = readmeSet + 1
    /\ currentView' = "loading"
    /\ pageError' = None
    /\ generatedReadmes' = <<>>
    /\ originalGeneratedReadmes' = originalMap(<<>>)
    /\ UNCHANGED <<isLoadingImprove, pendingImprove>>
    /\ UNCHANGED <<toolVars, classifierVars, contentVars, flowVars, loopVars>>

\* Lines 99-141: generateReadme settles
GenerateSettles ==
    /\ IsSome(pendingGenerate)
    /\ \E out \in GenerateOutcomes(Val(pendingGenerate), readmeSet) :
          IF out.throws
          THEN /\ pageError' = Some("Failed to generate README: ")
               /\ generatedReadmes' = <<>>
               /\ originalGeneratedReadmes' = originalMap(<<>>)
          ELSE IF Len(out.readmes) = 1 /\ out.readmes[1].language = <<"E", "r", "r", "o", "r">>
          THEN /\ pageError' = Some(out.readmes[1].content)
               /\ UNCHANGED <<generatedReadmes, originalGeneratedReadmes>>
          ELSE IF Len(out.readmes) > 0
          THEN /\ generatedReadmes' = out.readmes
               /\ originalGeneratedReadmes' = originalMap(out.readmes)
               /\ pageError' = None
          ELSE /\ pageError' = Some("An unexpected issue occurred. The AI model did not return any content.")
               /\ UNCHANGED <<generatedReadmes, originalGeneratedReadmes>>
    /\ pendingGenerate' = None
    /\ currentView' = "results"
    /\ UNCHANGED <<isLoadingImprove, pendingImprove, readmeSet>>
    /\ UNCHANGED <<toolVars, classifierVars, contentVars, flowVars, loopVars>>

\* Lines 144-161: Improve is pressed on the tab of fileName
handleImproveReadme ==
    /\ CanImprove
    /\ \E i \in DOMAIN generatedReadmes, userEdits \in UserEdits :
          LET fileName == generatedReadmes[i].fileName
          IN IF fileName \notin DOMAIN originalGeneratedReadmes
             THEN /\ pageError' = Some("Cannot improve README without an initial version for this language.")
                  /\ UNCHANGED <<isLoadingImprove, pendingImprove>>
             ELSE /\ isLoadingImprove' = TRUE
                  /\ pendingImprove' = pendingImprove \cup
                        {[fileName |-> fileName,
                          originalReadme |-> originalGeneratedReadmes[fileName],
                          userEdits |-> userEdits,
                          requestedFor |-> readmeSet]}
                  /\ UNCHANGED pageError
    /\ UNCHANGED <<currentView, generatedReadmes, originalGeneratedReadmes, pendingGenerate, readmeSet>>
    /\ UNCHANGED <<toolVars, classifierVars, contentVars, flowVars, loopVars>>

\* Lines 161-187: improveReadme settles
ImproveSettles ==
    /\ \E call \in pendingImprove, throws \in BOOLEAN :
          /\ pendingImprove' = pendingImprove \ {call}
          /\ IF throws
             THEN /\ pageError' = Some("Failed to improve README: ")
                  /\ UNCHANGED generatedReadmes
             ELSE /\ generatedReadmes' =
                        WithImprovedContent(generatedReadmes, call.fileName,
                                            improvedReadme(call.originalReadme, call.userEdits))
                  /\ UNCHANGED pageError
    /\ isLoadingImprove' = FALSE
    /\ UNCHANGED <<currentView, originalGeneratedReadmes, pendingGenerate, readmeSet>>
    /\ UNCHANGED <<toolVars, classifierVars, contentVars, flowVars, loopVars>>

\* Lines 190-196: "Generate New / Clear" (lines 265-271: on display in the
\* 'results' view, never disabled)
handleStartNew ==
    /\ currentView = "results"
    /\ generatedReadmes' = <<>>
    /\ originalGeneratedReadmes' = originalMap(<<>>)
    /\ pageError' = None
    /\ currentView' = "form"
    /\ UNCHANGED <<isLoadingImprove, pendingGenerate, pendingImprove, readmeSet>>
    /\ UNCHANGED <<toolVars, classifierVars, contentVars, flowVars, loopVars>>

\* Lines 198-208: "View Example README"
handleShowExample ==
    /\ CanShowExample
    /\ readmeSet < MaxReadmeSets
    /\ readmeSet' = readmeSet + 1
    /\ generatedReadmes' = <<EXAMPLE_README_OBJECT>>
    /\ originalGeneratedReadmes' = originalMap(<<EXAMPLE_README_OBJECT>>)
    /\ pageError' = None
    /\ currentView' = "results"
    /\ UNCHANGED <<isLoadingImprove, pendingGenerate, pendingImprove>>
    /\ UNCHANGED <<toolVars, classifierVars, contentVars, flowVars, loopVars>>

NextPage ==
    \/ handleGenerateReadme
    \/ GenerateSettles
    \/ handleImproveReadme
    \/ ImproveSettles
    \/ handleStartNew
    \/ handleShowExample

SpecPage == InitPage /\ [][NextPage]_vars

\* C30: an improve result is applied only to the README set it was requested
\* for: when an improveReadme call settles after the README set on display was
\* replaced (handleStartNew and a new handleGenerateReadme, or
\* handleShowExample), generatedReadmes does not change; and no step of
\* handleImproveReadme, before or after its await, changes
\* originalGeneratedReadmes.
ImproveAppliesToItsOwnSet ==
    [][/\ \A call \in pendingImprove :
             (call \notin pendingImprove' /\ call.requestedFor # readmeSet) =>
                generatedReadmes' = generatedReadmes
       /\ (pendingImprove' # pendingImprove) =>
             originalGeneratedReadmes' = originalGeneratedReadmes]_vars

=============================================================================
